---- MODULE Spec2Model ----
(***************************************************************************)
(* The delta replicator of replicator/main.go: NewDeltaReplicator and its  *)
(* query templates, Consume and the process* translators, as a state       *)
(* machine over goroutines that call Consume on one DeltaReplicator.        *)
(*                                                                         *)
(* Query text is a sequence of tokens (every bind marker "?" is a token of *)
(* its own), fmt.Sprintf and strings.Join are concatenation.  Bound values *)
(* are records [tag, v]: v is always a sequence of integers.               *)
(***************************************************************************)
EXTENDS Integers, Sequences, FiniteSets, TLC

(* ---------------------------------------------------------------- bounds *)

\* Largest number of partition-key columns of a table.
MaxPk == 3
\* Largest number of clustering-key columns of a table.
MaxCk == 2
\* Largest number of events in the Delta of one Change.
MaxDelta == 3
\* Largest number of cells one list change appends.
MaxCells == 2
\* Number of elements of a tuple-typed column.
TupleArity == 2

\* Largest number of CreateChangeConsumer calls made on a factory.
MaxCalls == 3

(* ------------------------------------------------------------ Go helpers *)

\* The zero value of a string slot of a freshly allocated backing array.
ZeroString == ""

RECURSIVE Zeros(_)
Zeros(n) == IF n <= 0 THEN << >> ELSE <<ZeroString>> \o Zeros(n - 1)

\* runtime.growslice for a []string whose capacity stays below 256: the
\* capacity doubles unless the needed length is larger still.
GrowCap(oldcap, needed) ==
    IF needed > 2 * oldcap THEN needed ELSE 2 * oldcap

\* A slice is its backing array (Len(arr) is the capacity) and its length.
NilSlice == [arr |-> << >>, len |-> 0]

View(s) == SubSeq(s.arr, 1, s.len)

Cap(s) == Len(s.arr)

\* Whether append(s, <n elements>...) stores into s's own backing array.
AppendInPlace(s, n) == s.len + n <= Cap(s)

\* append(s, xs...): in place when the capacity allows, else into a new
\* array of the grown capacity.
GoAppend(s, xs) ==
    IF AppendInPlace(s, Len(xs))
    THEN [arr |-> [i \in 1..Cap(s) |->
                      IF i > s.len /\ i <= s.len + Len(xs)
                      THEN xs[i - s.len] ELSE s.arr[i]],
          len |-> s.len + Len(xs)]
    ELSE [arr |-> View(s) \o xs
                    \o Zeros(GrowCap(Cap(s), s.len + Len(xs)) - s.len - Len(xs)),
          len |-> s.len + Len(xs)]

RECURSIVE Join(_, _)
\* strings.Join over token sequences.
Join(parts, sep) ==
    IF Len(parts) = 0 THEN << >>
    ELSE IF Len(parts) = 1 THEN parts[1]
    ELSE parts[1] \o sep \o Join(Tail(parts), sep)

RECURSIVE Flatten(_)
Flatten(seqs) ==
    IF Len(seqs) = 0 THEN << >> ELSE seqs[1] \o Flatten(Tail(seqs))

\* The number of bind markers of a query text.
Placeholders(text) == Cardinality({i \in 1..Len(text) : text[i] = "?"})

(* ---------------------------------------------------------------- values *)

MkInt(n) == [tag |-> "int", v |-> <<n>>]
MkTuple(ns) == [tag |-> "tuple", v |-> ns]
\* Go's nil interface value.
Nil == [tag |-> "nil", v |-> << >>]
\* gocql.UnsetValue
UnsetValue == [tag |-> "unset", v |-> << >>]
\* A key column the row carries no value for: GetValue returns ok = false.
Absent == [tag |-> "absent", v |-> << >>]

(* ----------------------------------------------------------------- types *)

\* TypeInfo: the kind, frozen-ness and (for a tuple) the element count.
ScalarType == [kind |-> "scalar", frozen |-> FALSE, arity |-> 0]
TupleType == [kind |-> "tuple", frozen |-> TRUE, arity |-> TupleArity]
ListType(frozen) == [kind |-> "list", frozen |-> frozen, arity |-> 0]
SetType(frozen) == [kind |-> "set", frozen |-> frozen, arity |-> 0]
MapType(frozen) == [kind |-> "map", frozen |-> frozen, arity |-> 0]
UDTType(frozen) == [kind |-> "udt", frozen |-> frozen, arity |-> 0]

\* Type.IsCollection: the kinds that are edited cell by cell when unfrozen.
IsCollection(typ) == typ.kind \in {"list", "set", "map", "udt"}

\* The declared fields of the user-defined type of the UDT columns.
UdtElements == <<"a", "b">>

(* --------------------------------------------------------- table metadata *)

PkNames == <<"pk1", "pk2", "pk3", "pk4", "pk5">>
CkNames == <<"ck1", "ck2", "ck3", "ck4">>

TableName == <<"ks.t">>

\* The regular columns of the tables considered, as (name, type) lists.
LayoutScalarList == << <<"val", ScalarType>>, <<"items", ListType(FALSE)>> >>
LayoutSetMap == << <<"tags", SetType(FALSE)>>, <<"attrs", MapType(FALSE)>> >>
LayoutUDT == << <<"u", UDTType(FALSE)>>, <<"fu", UDTType(TRUE)>> >>
LayoutFrozen == << <<"tup", TupleType>>, <<"fl", ListType(TRUE)>> >>

Layouts == {LayoutScalarList, LayoutSetMap, LayoutUDT, LayoutFrozen}

KeyType(isTuple) == IF isTuple THEN TupleType ELSE ScalarType

\* gocql.TableMetadata: OrderedColumns as (name, kind, type) triples.  With
\* tuplePk (tupleCk) the first partition (clustering) column is a tuple.
TableMeta(nPk, nCk, tuplePk, tupleCk, layout) ==
    [i \in 1..nPk |-> <<PkNames[i], "partition_key", KeyType(tuplePk /\ i = 1)>>]
    \o [i \in 1..nCk |-> <<CkNames[i], "clustering", KeyType(tupleCk /\ i = 1)>>]
    \o [i \in 1..Len(layout) |-> <<layout[i][1], "regular", layout[i][2]>>]

TableMetas ==
    { TableMeta(nPk, nCk, tp, tc, l) :
        nPk \in 1..MaxPk, nCk \in 0..MaxCk, tp \in BOOLEAN,
        tc \in BOOLEAN, l \in Layouts }

(* ------------------------------------------------------ query templates *)

makeBindMarkerForType(typ) ==
    IF typ.kind # "tuple" THEN <<"?">>
    ELSE <<"(">> \o Join([i \in 1..typ.arity |-> <<"?">>], <<", ">>) \o <<")">>

makeBindMarkerAssignmentList(columnTypes, columnNames) ==
    [i \in 1..Len(columnNames) |->
        <<columnNames[i], " = ">>
            \o makeBindMarkerForType(columnTypes[columnNames[i]])]

makeBindMarkerAssignments(columnTypes, columnNames, sep) ==
    Join(makeBindMarkerAssignmentList(columnTypes, columnNames), sep)

computeRowDeleteQuery(columnTypes, pkColumns, ckColumns) ==
    <<"DELETE FROM ">> \o TableName \o <<" WHERE ">>
        \o makeBindMarkerAssignments(
              columnTypes, View(pkColumns) \o View(ckColumns), <<" AND ">>)

computePartitionDeleteQuery(columnTypes, pkColumns) ==
    <<"DELETE FROM ">> \o TableName \o <<" WHERE ">>
        \o makeBindMarkerAssignments(columnTypes, View(pkColumns), <<" AND ">>)

StartOps == <<">=", ">", "">>
EndOps == <<"<=", "<", "">>

\* A faulty pass: the bound conditions stay in eqConds for the next pass.
RangeQueryStepKeepsBounds(eqConds, ckCol, typ) ==
    LET startOp == StartOps[(typ % 3) + 1]
        endOp == EndOps[(typ \div 3) + 1]
        c1 == IF startOp # ""
              THEN GoAppend(eqConds, << <<ckCol, " ", startOp, " ", "?">> >>)
              ELSE eqConds
        c2 == IF endOp # ""
              THEN GoAppend(c1, << <<ckCol, " ", endOp, " ", "?">> >>)
              ELSE c1
    IN  [query |-> <<"DELETE FROM ">> \o TableName \o <<" WHERE ">>
                      \o Join(View(c2), <<" AND ">>),
         eqConds |-> c2]

\* One pass of the inner loop of computeRangeDeleteQueries.  condsWithBounds
\* starts as an alias of eqConds, so an append that fits eqConds's capacity
\* stores into eqConds's backing array.  Gives the query string and eqConds
\* with its backing array as the pass leaves it.
RangeQueryStep(eqConds, ckCol, typ) ==
    LET startOp == StartOps[(typ % 3) + 1]
        endOp == EndOps[(typ \div 3) + 1]
        c1 == IF startOp # ""
              THEN GoAppend(eqConds, << <<ckCol, " ", startOp, " ", "?">> >>)
              ELSE eqConds
        alias1 == startOp = "" \/ AppendInPlace(eqConds, 1)
        c2 == IF endOp # ""
              THEN GoAppend(c1, << <<ckCol, " ", endOp, " ", "?">> >>)
              ELSE c1
        alias2 == alias1 /\ (endOp = "" \/ AppendInPlace(c1, 1))
    IN  [query |-> <<"DELETE FROM ">> \o TableName \o <<" WHERE ">>
                      \o Join(View(c2), <<" AND ">>),
         eqConds |-> [arr |-> IF alias2 THEN c2.arr
                              ELSE IF alias1 THEN c1.arr ELSE eqConds.arr,
                      len |-> eqConds.len]]

RECURSIVE RangeQueriesForColumnNine(_, _, _, _)
\* A faulty inner loop: it also builds the ninth combination, no bound on
\* either side.
RangeQueriesForColumnNine(eqConds, ckCol, typ, out) ==
    IF typ >= 9 THEN [eqConds |-> eqConds, out |-> out]
    ELSE LET step == RangeQueryStep(eqConds, ckCol, typ)
         IN  RangeQueriesForColumnNine(
                 step.eqConds, ckCol, typ + 1, Append(out, step.query))

RECURSIVE RangeQueriesForColumn(_, _, _, _)
\* The inner loop: typ = 0..7 for one clustering column.
RangeQueriesForColumn(eqConds, ckCol, typ, out) ==
    IF typ >= 8 THEN [eqConds |-> eqConds, out |-> out]
    ELSE LET step == RangeQueryStep(eqConds, ckCol, typ)
         IN  RangeQueriesForColumn(
                 step.eqConds, ckCol, typ + 1, Append(out, step.query))

RECURSIVE RangeQueriesFrom(_, _, _, _)
\* The outer loop over the clustering columns, from column i on.  (col is
\* bound through a singleton set, so that it is evaluated once.)
RangeQueriesFrom(ckColumns, i, eqConds, out) ==
    IF i > Len(ckColumns) THEN out
    ELSE CHOOSE res \in
             { RangeQueriesFrom(
                   ckColumns, i + 1,
                   GoAppend(col.eqConds, << <<ckColumns[i], " = ", "?">> >>),
                   col.out) :
               col \in {RangeQueriesForColumn(eqConds, ckColumns[i], 0, out)} } :
             TRUE

computeRangeDeleteQueries(columnTypes, pkColumns, ckColumns) ==
    LET list == makeBindMarkerAssignmentList(columnTypes, View(pkColumns))
    IN  RangeQueriesFrom(
            View(ckColumns), 1, [arr |-> list, len |-> Len(list)], << >>)

(* ------------------------------------------------------ NewDeltaReplicator *)

RECURSIVE ColumnsOfRole(_, _, _, _)
\* The loop over meta.OrderedColumns, for the slice of one role: each column
\* of the role is appended to the slice, which starts nil.
ColumnsOfRole(meta, i, roles, s) ==
    IF i > Len(meta) THEN s
    ELSE ColumnsOfRole(
             meta, i + 1, roles,
             IF meta[i][2] \in roles THEN GoAppend(s, <<meta[i][1]>>) ELSE s)

\* columnTypes: the catalog's type of each column, already classified.
ColumnTypes(meta) ==
    [name \in {meta[i][1] : i \in 1..Len(meta)} |->
        (CHOOSE i \in 1..Len(meta) : meta[i][1] = name) ]

NewDeltaReplicator(meta) ==
    LET pkColumns == ColumnsOfRole(meta, 1, {"partition_key"}, NilSlice)
        ckColumns == ColumnsOfRole(meta, 1, {"clustering"}, NilSlice)
        otherColumns == ColumnsOfRole(meta, 1, {"regular"}, NilSlice)
        columnTypes == [name \in DOMAIN ColumnTypes(meta) |->
                           meta[ColumnTypes(meta)[name]][3]]
    IN  [pkColumns |-> pkColumns,
         ckColumns |-> ckColumns,
         otherColumns |-> otherColumns,
         columnTypes |-> columnTypes,
         rowDeleteQueryStr |->
             computeRowDeleteQuery(columnTypes, pkColumns, ckColumns),
         partitionDeleteQueryStr |->
             computePartitionDeleteQuery(columnTypes, pkColumns),
         rangeDeleteQueryStrs |->
             computeRangeDeleteQueries(columnTypes, pkColumns, ckColumns)]

(* ---------------------------------------------------------- change rows *)

\* scylla_cdc.OperationType as the number the CDC log stores for it.
OpCode(op) ==
    CASE op = "PreImage" -> 0
      [] op = "Update" -> 1
      [] op = "Insert" -> 2
      [] op = "RowDelete" -> 3
      [] op = "PartitionDelete" -> 4
      [] op = "RangeDeleteStartInclusive" -> 5
      [] op = "RangeDeleteStartExclusive" -> 6
      [] op = "RangeDeleteEndInclusive" -> 7
      [] op = "RangeDeleteEndExclusive" -> 8
      [] op = "PostImage" -> 9

\* A ChangeRow is [op, ttl, key, cols]: key gives each key column its value
\* (Absent when the row carries none); cols gives each regular column the
\* three CDC log columns of it: value, deleted, deletedElements.
GetOperation(c) == c.op

GetTTL(c) == MkInt(c.ttl)

GetValue(c, name) ==
    IF name \in DOMAIN c.key /\ c.key[name].tag # "absent"
    THEN [v |-> c.key[name], ok |-> TRUE]
    ELSE [v |-> Nil, ok |-> FALSE]

GetScalarChange(c, col) ==
    [Value |-> c.cols[col].value, IsDeleted |-> c.cols[col].deleted]

GetListChange(c, col) ==
    [AppendedElements |-> c.cols[col].value,
     RemovedElements |-> c.cols[col].deletedElements,
     IsReset |-> c.cols[col].deleted]

GetSetChange(c, col) ==
    [AddedElements |-> c.cols[col].value,
     RemovedElements |-> c.cols[col].deletedElements,
     IsReset |-> c.cols[col].deleted]

GetMapChange(c, col) ==
    [AddedElements |-> c.cols[col].value,
     RemovedElements |-> c.cols[col].deletedElements,
     IsReset |-> c.cols[col].deleted]

GetUDTChange(c, col) ==
    [AddedFields |-> c.cols[col].value,
     RemovedFields |-> c.cols[col].deletedElements,
     IsReset |-> c.cols[col].deleted]

(* ------------------------------------------------------- binding helpers *)

appendValueByType(vals, v, typ) ==
    IF typ.kind = "tuple"
    THEN vals \o [i \in 1..Len(v.v) |-> MkInt(v.v[i])]
    ELSE Append(vals, v)

appendKeyValuesToBind(vals, names, c) ==
    vals \o [i \in 1..Len(names) |->
                IF GetValue(c, names[i]).ok
                THEN GetValue(c, names[i]).v ELSE UnsetValue]

\* batch.Query(stmt, vals...)
Query(stmt, vals) == [stmt |-> stmt, vals |-> vals]

(* ------------------------------------------------- processInsertOrUpdate *)

\* keyColumns := append(r.pkColumns, r.ckColumns...): the slice the call
\* gets, and r.pkColumns's backing array as the append leaves it.
KeyColumnsSlice(pkColumns, ckColumns) == GoAppend(pkColumns, View(ckColumns))

\* The slots of r.pkColumns's backing array the append stores into.
KeyColumnsWrites(pkColumns, ckColumns) ==
    IF AppendInPlace(pkColumns, ckColumns.len)
    THEN (pkColumns.len + 1)..(pkColumns.len + ckColumns.len)
    ELSE {}

\* A faulty row marker: the TTL is bound before the key values.
InsertQueryTTLFirst(r, keyColumns, c) ==
    Query(<<"INSERT INTO ">> \o TableName \o <<" (">>
              \o Join([i \in 1..Len(keyColumns) |-> <<keyColumns[i]>>], <<", ">>)
              \o <<") VALUES (">>
              \o Join([i \in 1..Len(keyColumns) |->
                          makeBindMarkerForType(r.columnTypes[keyColumns[i]])],
                      <<", ">>)
              \o <<") USING TTL ", "?">>,
          appendKeyValuesToBind(<<GetTTL(c)>>, keyColumns, c))

\* The row-marker INSERT of an Insert event.
InsertQuery(r, keyColumns, c) ==
    Query(<<"INSERT INTO ">> \o TableName \o <<" (">>
              \o Join([i \in 1..Len(keyColumns) |-> <<keyColumns[i]>>], <<", ">>)
              \o <<") VALUES (">>
              \o Join([i \in 1..Len(keyColumns) |->
                          makeBindMarkerForType(r.columnTypes[keyColumns[i]])],
                      <<", ">>)
              \o <<") USING TTL ", "?">>,
          Append(appendKeyValuesToBind(<< >>, keyColumns, c), GetTTL(c)))

\* A faulty scalar branch: a value wins over a deletion.
ScalarQueriesValueFirst(r, keyColumns, pkConditions, c, colName) ==
    LET typ == r.columnTypes[colName]
        scalarChange == GetScalarChange(c, colName)
    IN  IF scalarChange.Value.tag # "nil"
        THEN << Query(<<"UPDATE ">> \o TableName
                          \o <<" USING TTL ", "?", " SET ", colName, " = ">>
                          \o makeBindMarkerForType(typ)
                          \o <<" WHERE ">> \o pkConditions,
                      appendKeyValuesToBind(
                          appendValueByType(<<GetTTL(c)>>, scalarChange.Value, typ),
                          keyColumns, c)) >>
        ELSE IF scalarChange.IsDeleted
        THEN << Query(<<"DELETE ", colName, " FROM ">> \o TableName
                          \o <<" WHERE ">> \o pkConditions,
                      appendKeyValuesToBind(<< >>, keyColumns, c)) >>
        ELSE << >>

\* The branch for a column that is not an unfrozen collection.
ScalarQueries(r, keyColumns, pkConditions, c, colName) ==
    LET typ == r.columnTypes[colName]
        scalarChange == GetScalarChange(c, colName)
    IN  IF scalarChange.IsDeleted
        THEN << Query(<<"DELETE ", colName, " FROM ">> \o TableName
                          \o <<" WHERE ">> \o pkConditions,
                      appendKeyValuesToBind(<< >>, keyColumns, c)) >>
        ELSE IF scalarChange.Value.tag # "nil"
        THEN << Query(<<"UPDATE ">> \o TableName
                          \o <<" USING TTL ", "?", " SET ", colName, " = ">>
                          \o makeBindMarkerForType(typ)
                          \o <<" WHERE ">> \o pkConditions,
                      appendKeyValuesToBind(
                          appendValueByType(<<GetTTL(c)>>, scalarChange.Value, typ),
                          keyColumns, c)) >>
        ELSE << >>

\* A faulty clear timestamp: always one less than the write's.
ClearTimestampAlwaysLess(timestamp, listChange) == timestamp - 1

\* The timestamp of the statement that clears a list being reset.
ClearTimestamp(timestamp, listChange) ==
    IF listChange.AppendedElements.tag # "nil" THEN timestamp - 1 ELSE timestamp

\* The cells of AppendedElements, a map from cell key to value, as
\* (key, value) pairs.
Cells(appended) ==
    [i \in 1..(Len(appended.v) \div 2) |->
        <<appended.v[2 * i - 1], appended.v[2 * i]>>]

\* The cells in the order MapRange visits them: order is a permutation of
\* cell positions, the positions beyond the map's size are skipped.
CellsInOrder(appended, order) ==
    LET cells == Cells(appended)
        InMap(i) == i <= Len(cells)
        visit == SelectSeq(order, InMap)
    IN  [i \in 1..Len(visit) |-> cells[visit[i]]]

\* The branch for an unfrozen list.
ListQueries(r, keyColumns, pkConditions, timestamp, c, colName, order) ==
    LET typ == r.columnTypes[colName]
        listChange == GetListChange(c, colName)
        keyVals == appendKeyValuesToBind(<< >>, keyColumns, c)
        clear ==
            IF listChange.IsReset
            THEN << Query(<<"DELETE ", colName, " FROM ">> \o TableName
                              \o <<" USING TIMESTAMP ", "?", " WHERE ">>
                              \o pkConditions,
                          <<MkInt(ClearTimestamp(timestamp, listChange))>>
                              \o keyVals) >>
            ELSE << >>
        setStr == <<"UPDATE ">> \o TableName
                      \o <<" USING TTL ", "?", " SET ", colName,
                           "[SCYLLA_TIMEUUID_LIST_INDEX(", "?", ")] = ">>
                      \o makeBindMarkerForType(typ)
                      \o <<" WHERE ">> \o pkConditions
        cells == CellsInOrder(listChange.AppendedElements, order)
        appends ==
            IF listChange.AppendedElements.tag # "nil"
            THEN [i \in 1..Len(cells) |->
                     Query(setStr,
                           appendValueByType(
                               <<GetTTL(c), MkInt(cells[i][1])>>,
                               MkInt(cells[i][2]), typ) \o keyVals)]
            ELSE << >>
        clearStr == <<"UPDATE ">> \o TableName
                        \o <<" SET ", colName,
                             "[SCYLLA_TIMEUUID_LIST_INDEX(", "?", ")] = null WHERE ">>
                        \o pkConditions
        removes ==
            IF listChange.RemovedElements.tag # "nil"
            THEN [i \in 1..Len(listChange.RemovedElements.v) |->
                     Query(clearStr,
                           <<MkInt(listChange.RemovedElements.v[i])>> \o keyVals)]
            ELSE << >>
    IN  clear \o appends \o removes

\* A faulty read of a set or map change: the reset flag is dropped.
SetOrMapChangeNoReset(r, c, colName) ==
    [GetSetChange(c, colName) EXCEPT !.IsReset = FALSE]

\* The change read for an unfrozen set or map column.
SetOrMapChange(r, c, colName) ==
    IF r.columnTypes[colName].kind = "set"
    THEN GetSetChange(c, colName)
    ELSE GetSetChange(c, colName)

\* The branch for an unfrozen set or map.
SetMapQueries(r, keyColumns, pkConditions, c, colName) ==
    LET change == SetOrMapChange(r, c, colName)
        added == change.AddedElements
        removed == change.RemovedElements
        keyVals == appendKeyValuesToBind(<< >>, keyColumns, c)
        Stmt(rhs) == <<"UPDATE ">> \o TableName
                         \o <<" USING TTL ", "?", " SET ", colName, " = ">>
                         \o rhs \o <<" WHERE ">> \o pkConditions
    IN  IF change.IsReset
        THEN << Query(Stmt(<<"?">>), <<GetTTL(c), added>> \o keyVals) >>
        ELSE (IF added.tag # "nil"
              THEN << Query(Stmt(<<colName, " + ", "?">>),
                            <<GetTTL(c), added>> \o keyVals) >>
              ELSE << >>)
             \o (IF removed.tag # "nil"
                 THEN << Query(Stmt(<<colName, " - ", "?">>),
                               <<GetTTL(c), removed>> \o keyVals) >>
                 ELSE << >>)

\* A faulty elementValues: a non-nil added field wins over its removal.
ElementValuesAddedWins(udtChange) ==
    [i \in 1..Len(UdtElements) |->
        IF udtChange.AddedFields.tag # "nil" /\ udtChange.AddedFields.v[i] >= 0
        THEN MkInt(udtChange.AddedFields.v[i])
        ELSE IF \E j \in 1..Len(udtChange.RemovedFields.v) :
                    udtChange.RemovedFields.v[j] = i - 1
        THEN Nil
        ELSE UnsetValue]

\* elementValues of the UDT branch: UnsetValue for an untouched field, the
\* value of a field that AddedFields holds non-nil (v >= 0; -1 is a missing
\* entry, -2 a nil pointer), and nil for every index RemovedFields lists.
ElementValues(udtChange) ==
    [i \in 1..Len(UdtElements) |->
        IF \E j \in 1..Len(udtChange.RemovedFields.v) :
               udtChange.RemovedFields.v[j] = i - 1
        THEN Nil
        ELSE IF udtChange.AddedFields.tag # "nil"
                /\ udtChange.AddedFields.v[i] >= 0
        THEN MkInt(udtChange.AddedFields.v[i])
        ELSE UnsetValue]

RECURSIVE UDTFieldQueries(_, _, _, _, _, _, _)
\* The loop that sends one query for each field being updated, from field i.
UDTFieldQueries(r, keyColumns, pkConditions, c, colName, elementValues, i) ==
    IF i > Len(UdtElements) THEN << >>
    ELSE LET v == elementValues[i]
             typ == r.columnTypes[colName]
             rest == UDTFieldQueries(r, keyColumns, pkConditions, c, colName,
                                     elementValues, i + 1)
         IN  IF v.tag = "unset" THEN rest
             ELSE << Query(<<"UPDATE ">> \o TableName
                               \o <<" USING TTL ", "?", " SET ", colName, ".",
                                    UdtElements[i], " = ">>
                               \o (IF v.tag # "nil"
                                   THEN makeBindMarkerForType(typ)
                                   ELSE <<"null">>)
                               \o <<" WHERE ">> \o pkConditions,
                           appendKeyValuesToBind(
                               IF v.tag # "nil"
                               THEN appendValueByType(<<GetTTL(c)>>, v, typ)
                               ELSE <<GetTTL(c)>>,
                               keyColumns, c)) >> \o rest

\* The branch for an unfrozen UDT.
UDTQueries(r, keyColumns, pkConditions, c, colName) ==
    LET typ == r.columnTypes[colName]
        udtChange == GetUDTChange(c, colName)
    IN  IF udtChange.IsReset
        THEN << Query(<<"UPDATE ">> \o TableName
                          \o <<" USING TTL ", "?", " SET ", colName, " = ">>
                          \o makeBindMarkerForType(typ)
                          \o <<" WHERE ">> \o pkConditions,
                      appendKeyValuesToBind(
                          appendValueByType(<<GetTTL(c)>>, udtChange.AddedFields, typ),
                          keyColumns, c)) >>
        ELSE UDTFieldQueries(r, keyColumns, pkConditions, c, colName,
                             ElementValues(udtChange), 1)

\* The queries of one regular column, by the type of the column.
ColumnQueries(r, keyColumns, pkConditions, timestamp, c, colName, order) ==
    LET typ == r.columnTypes[colName]
        isNonFrozenCollection == ~typ.frozen /\ IsCollection(typ)
    IN  IF ~isNonFrozenCollection
        THEN ScalarQueries(r, keyColumns, pkConditions, c, colName)
        ELSE IF typ.kind = "list"
        THEN ListQueries(r, keyColumns, pkConditions, timestamp, c, colName, order)
        ELSE IF typ.kind = "set" \/ typ.kind = "map"
        THEN SetMapQueries(r, keyColumns, pkConditions, c, colName)
        ELSE IF typ.kind = "udt"
        THEN UDTQueries(r, keyColumns, pkConditions, c, colName)
        ELSE << >>

\* The batch processInsertOrUpdate builds: the row marker of an Insert, then
\* the queries of r.otherColumns in order, at the timestamp of the change.
InsertOrUpdateBatch(r, keyColumns, timestamp, isInsert, c, order) ==
    LET pkConditions ==
            makeBindMarkerAssignments(r.columnTypes, keyColumns, <<" AND ">>)
        others == View(r.otherColumns)
    IN  [type |-> "UnloggedBatch",
         entries |->
             (IF isInsert THEN <<InsertQuery(r, keyColumns, c)>> ELSE << >>)
             \o Flatten([i \in 1..Len(others) |->
                            ColumnQueries(r, keyColumns, pkConditions,
                                          timestamp, c, others[i], order)]),
         timestamp |-> timestamp,
         idempotent |-> FALSE]

(* ------------------------------------------------------ the delete family *)

\* A faulty single statement: the timestamp of the change is not passed on.
SingleQueryNoTimestamp(stmt, vals, timestamp) ==
    [type |-> "Query",
     entries |-> <<Query(stmt, vals)>>,
     timestamp |-> 0,
     idempotent |-> TRUE]

\* A single statement as session.Query(...).Idempotent(true).WithTimestamp.
SingleQuery(stmt, vals, timestamp) ==
    [type |-> "Query",
     entries |-> <<Query(stmt, vals)>>,
     timestamp |-> timestamp,
     idempotent |-> TRUE]

RowDeleteQuery(r, timestamp, c) ==
    SingleQuery(r.rowDeleteQueryStr,
                appendKeyValuesToBind(
                    appendKeyValuesToBind(<< >>, View(r.pkColumns), c),
                    View(r.ckColumns), c),
                timestamp)

PartitionDeleteQuery(r, timestamp, c) ==
    SingleQuery(r.partitionDeleteQueryStr,
                appendKeyValuesToBind(<< >>, View(r.pkColumns), c),
                timestamp)

RECURSIVE RangeScan(_, _, _, _, _)
\* The loop of processRangeDelete over the clustering columns, from column i
\* (1-based; baseIdx keeps the code's 0-based index).
RangeScan(ckColumns, start, end, i, st) ==
    IF i > Len(ckColumns) THEN st
    ELSE LET left == GetValue(start, ckColumns[i])
             right == GetValue(end, ckColumns[i])
         IN  IF left.ok /\ right.ok
             THEN RangeScan(ckColumns, start, end, i + 1,
                            [st EXCEPT !.prevRight = right.v,
                                       !.vals = Append(@, left.v),
                                       !.hasLeft = TRUE,
                                       !.hasRight = TRUE])
             ELSE IF left.ok
             THEN [st EXCEPT !.vals = Append(@, left.v),
                             !.hasLeft = TRUE, !.hasRight = FALSE,
                             !.baseIdx = i - 1]
             ELSE IF right.ok
             THEN [st EXCEPT !.vals = Append(@, right.v),
                             !.hasLeft = FALSE, !.hasRight = TRUE,
                             !.baseIdx = i - 1]
             ELSE [st EXCEPT !.vals = Append(@, st.prevRight),
                             !.hasLeft = TRUE, !.hasRight = TRUE,
                             !.baseIdx = i - 2]

\* A faulty index: the weights of the two bound kinds are swapped.
QueryIdxKindsSwapped(baseIdx, leftOff, rightOff) ==
    8 * baseIdx + 3 * leftOff + rightOff

\* queryIdx := 8*baseIdx + leftOff + 3*rightOff
QueryIdx(baseIdx, leftOff, rightOff) == 8 * baseIdx + leftOff + 3 * rightOff

\* What processRangeDelete resolves from a start and an end row: the bound
\* values, the depth, the bound kinds and the index of the template.
RangeResolve(r, start, end) ==
    LET scan == RangeScan(View(r.ckColumns), start, end, 1,
                          [vals |-> appendKeyValuesToBind(
                                        << >>, View(r.pkColumns), start),
                           prevRight |-> Nil,
                           hasLeft |-> FALSE, hasRight |-> FALSE,
                           baseIdx |-> -1])
        twoSided == scan.baseIdx = -1
        baseIdx == IF twoSided THEN r.ckColumns.len - 1 ELSE scan.baseIdx
        leftOff == IF scan.hasLeft
                   THEN OpCode(GetOperation(start))
                            - OpCode("RangeDeleteStartInclusive")
                   ELSE 2
        rightOff == IF scan.hasRight
                    THEN OpCode(GetOperation(end))
                             - OpCode("RangeDeleteEndInclusive")
                    ELSE 2
    IN  [vals |-> IF twoSided THEN Append(scan.vals, scan.prevRight)
                  ELSE scan.vals,
         baseIdx |-> baseIdx,
         hasLeft |-> scan.hasLeft,
         hasRight |-> scan.hasRight,
         leftOff |-> leftOff,
         rightOff |-> rightOff,
         queryIdx |-> QueryIdx(baseIdx, leftOff, rightOff)]

\* Whether r.rangeDeleteQueryStrs[queryIdx] is an index in range.
RangeIndexOk(r, start, end) ==
    LET q == RangeResolve(r, start, end).queryIdx
    IN  q >= 0 /\ q < Len(r.rangeDeleteQueryStrs)

RangeDeleteQuery(r, timestamp, start, end) ==
    LET res == RangeResolve(r, start, end)
    IN  SingleQuery(r.rangeDeleteQueryStrs[res.queryIdx + 1], res.vals, timestamp)

(* ----------------------------------------------------------------- state *)

VARIABLES
    r,           \* the DeltaReplicator the goroutines share
    change,      \* change[g]: the Change goroutine g's Consume was given
    pos,         \* pos[g]: Consume's position in change[g].Delta (0-based)
    pc,          \* pc[g]: "loop", "batch", "returned" or "panicked"
    keyColumns,  \* keyColumns[g]: processInsertOrUpdate's local slice
    err,         \* err[g]: what Consume returned, "nil" or "error"
    executed,    \* executed[g]: the destination writes g issued, in order
    wr,          \* wr[g]: the slots of r.pkColumns's array g stored into
    rf,          \* the replicatorFactory: its destinationSession, which
                 \* is also r's session, "open" or "closed"
    calls        \* the CreateChangeConsumer calls made, with what each
                 \* returned, in order

vars == <<r, change, pos, pc, keyColumns, err, executed, wr, rf, calls>>

Goroutines == DOMAIN pc

\* The event Consume is at.
CurrentEvent(g) == change[g].Delta[pos[g] + 1]

AtEvent(g) == pc[g] = "loop" /\ pos[g] < Len(change[g].Delta)

NoKeyColumns == [shared |-> FALSE, len |-> 0, own |-> << >>]

\* The elements of goroutine g's keyColumns: those of r.pkColumns's backing
\* array when the slice shares it.
KeyColumnsOf(g) ==
    IF keyColumns[g].shared
    THEN SubSeq(r.pkColumns.arr, 1, keyColumns[g].len)
    ELSE keyColumns[g].own

\* A write handed to the session, for the event at position p; ok is
\* whether the destination applied it.
Executed(g, p, write, ok) ==
    Append(executed[g], [write |-> write, pos |-> p, ok |-> ok])

\* What executing a write can give: true when the destination applies it,
\* false when the call returns an error.  A closed session executes
\* nothing, and a statement bound to a number of values other than the
\* number of its markers is refused; any other write can fail as well.
WriteOutcomes(write) ==
    IF \/ rf.destinationSession = "closed"
       \/ \E i \in DOMAIN write.entries :
              Len(write.entries[i].vals) # Placeholders(write.entries[i].stmt)
    THEN {FALSE}
    ELSE BOOLEAN

\* A faulty step: the position moves on by one whatever was consumed.
AfterWriteOneStep(g, next, ok) ==
    /\ pos' = [pos EXCEPT ![g] = pos[g] + 1]
    /\ pc' = [pc EXCEPT ![g] = IF ok THEN "loop" ELSE "returned"]
    /\ err' = [err EXCEPT ![g] = IF ok THEN "nil" ELSE "error"]

\* A faulty step: the error of the write is dropped and the loop goes on.
AfterWriteIgnoringError(g, next, ok) ==
    /\ pos' = [pos EXCEPT ![g] = next]
    /\ pc' = [pc EXCEPT ![g] = "loop"]
    /\ err' = [err EXCEPT ![g] = "nil"]

\* What follows a destination write: the loop goes on to position next, or
\* Consume returns the error.
AfterWrite(g, next, ok) ==
    /\ pos' = [pos EXCEPT ![g] = next]
    /\ pc' = [pc EXCEPT ![g] = IF ok THEN "loop" ELSE "returned"]
    /\ err' = [err EXCEPT ![g] = IF ok THEN "nil" ELSE "error"]

(* --------------------------------------------------------------- actions *)

\* Consume dispatches an Insert or Update to processInsertOrUpdate, which
\* first makes keyColumns by appending r.ckColumns to r.pkColumns.
ProcessInsertOrUpdateBegin(g) ==
    /\ AtEvent(g)
    /\ GetOperation(CurrentEvent(g)) \in {"Insert", "Update"}
    /\ LET slice == KeyColumnsSlice(r.pkColumns, r.ckColumns)
           inPlace == AppendInPlace(r.pkColumns, r.ckColumns.len)
       IN  /\ r' = IF inPlace
                   THEN [r EXCEPT !.pkColumns.arr = slice.arr]
                   ELSE r
           /\ keyColumns' =
                  [keyColumns EXCEPT ![g] =
                      [shared |-> inPlace, len |-> slice.len,
                       own |-> IF inPlace THEN << >> ELSE View(slice)]]
    /\ wr' = [wr EXCEPT ![g] = @ \cup KeyColumnsWrites(r.pkColumns, r.ckColumns)]
    /\ pc' = [pc EXCEPT ![g] = "batch"]
    /\ UNCHANGED <<rf, calls, change, pos, err, executed>>

\* processInsertOrUpdate builds the batch and executes it.
ProcessInsertOrUpdateExec(g) ==
    /\ pc[g] = "batch"
    /\ \E order \in Permutations(1..MaxCells) :
           LET batch == InsertOrUpdateBatch(
                            r, KeyColumnsOf(g), change[g].timestamp,
                            GetOperation(CurrentEvent(g)) = "Insert",
                            CurrentEvent(g),
                            [i \in 1..MaxCells |-> order[i]])
           IN  \E ok \in WriteOutcomes(batch) :
                   /\ executed' =
                          [executed EXCEPT ![g] = Executed(g, pos[g], batch, ok)]
                   /\ AfterWrite(g, pos[g] + 1, ok)
    /\ keyColumns' = [keyColumns EXCEPT ![g] = NoKeyColumns]
    /\ UNCHANGED <<rf, calls, r, change, wr>>

ProcessRowDelete(g) ==
    /\ AtEvent(g)
    /\ GetOperation(CurrentEvent(g)) = "RowDelete"
    /\ LET query == RowDeleteQuery(r, change[g].timestamp, CurrentEvent(g))
       IN  \E ok \in WriteOutcomes(query) :
               /\ executed' =
                      [executed EXCEPT ![g] = Executed(g, pos[g], query, ok)]
               /\ AfterWrite(g, pos[g] + 1, ok)
    /\ UNCHANGED <<rf, calls, r, change, keyColumns, wr>>

ProcessPartitionDelete(g) ==
    /\ AtEvent(g)
    /\ GetOperation(CurrentEvent(g)) = "PartitionDelete"
    /\ LET query == PartitionDeleteQuery(r, change[g].timestamp,
                                         CurrentEvent(g))
       IN  \E ok \in WriteOutcomes(query) :
               /\ executed' =
                      [executed EXCEPT ![g] = Executed(g, pos[g], query, ok)]
               /\ AfterWrite(g, pos[g] + 1, ok)
    /\ UNCHANGED <<rf, calls, r, change, keyColumns, wr>>

\* A RangeDeleteStart: the next event is taken as its end, whatever it is.
\* Reading c.Delta[pos+1] past the end, or a template index out of range,
\* panics.
ProcessRangeDelete(g) ==
    /\ AtEvent(g)
    /\ GetOperation(CurrentEvent(g))
           \in {"RangeDeleteStartInclusive", "RangeDeleteStartExclusive"}
    /\ IF pos[g] + 1 >= Len(change[g].Delta)
       THEN /\ pc' = [pc EXCEPT ![g] = "panicked"]
            /\ UNCHANGED <<pos, err, executed>>
       ELSE LET start == CurrentEvent(g)
                end == change[g].Delta[pos[g] + 2]
            IN  IF ~RangeIndexOk(r, start, end)
                THEN /\ pc' = [pc EXCEPT ![g] = "panicked"]
                     /\ UNCHANGED <<pos, err, executed>>
                ELSE LET query == RangeDeleteQuery(r, change[g].timestamp,
                                                   start, end)
                     IN  \E ok \in WriteOutcomes(query) :
                             /\ executed' =
                                    [executed EXCEPT ![g] =
                                        Executed(g, pos[g], query, ok)]
                             /\ AfterWrite(g, pos[g] + 2, ok)
    /\ UNCHANGED <<rf, calls, r, change, keyColumns, wr>>

\* A faulty default case: the event is skipped and the loop goes on.
UnsupportedOperationSkipped(g) ==
    /\ AtEvent(g)
    /\ GetOperation(CurrentEvent(g))
           \notin {"Update", "Insert", "RowDelete", "PartitionDelete",
                   "RangeDeleteStartInclusive", "RangeDeleteStartExclusive"}
    /\ pos' = [pos EXCEPT ![g] = pos[g] + 1]
    /\ UNCHANGED <<rf, calls, r, change, pc, keyColumns, err, executed, wr>>

\* The default case of the switch: panic("unsupported operation: ...").
UnsupportedOperation(g) ==
    /\ AtEvent(g)
    /\ GetOperation(CurrentEvent(g))
           \notin {"Update", "Insert", "RowDelete", "PartitionDelete",
                   "RangeDeleteStartInclusive", "RangeDeleteStartExclusive"}
    /\ pc' = [pc EXCEPT ![g] = "panicked"]
    /\ UNCHANGED <<rf, calls, r, change, pos, keyColumns, err, executed, wr>>

\* The loop condition fails: Consume returns nil.
ConsumeReturn(g) ==
    /\ pc[g] = "loop"
    /\ pos[g] >= Len(change[g].Delta)
    /\ pc' = [pc EXCEPT ![g] = "returned"]
    /\ err' = [err EXCEPT ![g] = "nil"]
    /\ UNCHANGED <<rf, calls, r, change, pos, keyColumns, executed, wr>>

(* ------------------------------------------------------------- factory *)

\* A table name is the sequence of its parts between the dots.
\* strings.SplitN(name, ".", 2): the part before the first dot and the rest.
SplitN(name) ==
    IF Len(name) < 2 THEN <<name>> ELSE << <<name[1]>>, Tail(name) >>

\* The destination catalog: its keyspaces, and the tables of each with
\* their metadata.
Keyspaces == {"ks"}

TablesOf(keyspace) == { <<"t">> }

CatalogMeta(keyspace, table) == TableMeta(1, 1, FALSE, FALSE, LayoutScalarList)

\* Session.KeyspaceMetadata: an error on a closed session and for a
\* keyspace the catalog does not have, else the tables of the keyspace.
KeyspaceMetadata(session, keyspace) ==
    IF session = "closed"
    THEN [err |-> "session has been closed", Tables |-> {}]
    ELSE IF keyspace \notin {<<k>> : k \in Keyspaces}
    THEN [err |-> "keyspace does not exist", Tables |-> {}]
    ELSE [err |-> "nil", Tables |-> TablesOf(keyspace[1])]

\* What a CreateChangeConsumer call returned: the consumer (none, or the
\* one translator), the error, whether the catalog was asked, and the
\* state of the session the consumer shares when the call returned.
Returned(input, consumer, error, asked, session) ==
    [input |-> input, consumer |-> consumer, err |-> error,
     asked |-> asked, session |-> session]

CreateChangeConsumer(input) ==
    /\ Len(calls) < MaxCalls
    /\ LET splitTableName == SplitN(input)
       IN  IF Len(splitTableName) < 2
           THEN /\ calls' = Append(calls,
                                   Returned(input, << >>,
                                            "table name is not fully qualified",
                                            FALSE, rf.destinationSession))
                /\ UNCHANGED rf
           ELSE LET kmeta == KeyspaceMetadata(rf.destinationSession,
                                              splitTableName[1])
                IN  IF kmeta.err # "nil"
                    THEN /\ rf' = [rf EXCEPT !.destinationSession = "closed"]
                         /\ calls' = Append(calls,
                                            Returned(input, << >>, kmeta.err,
                                                     TRUE, "closed"))
                    ELSE IF splitTableName[2] \notin kmeta.Tables
                    THEN /\ rf' = [rf EXCEPT !.destinationSession = "closed"]
                         /\ calls' = Append(calls,
                                            Returned(input, << >>,
                                                     "table does not exist",
                                                     TRUE, "closed"))
                    ELSE /\ calls' =
                                Append(calls,
                                       Returned(input,
                                                <<NewDeltaReplicator(
                                                      CatalogMeta(
                                                          splitTableName[1][1],
                                                          splitTableName[2]))>>,
                                                "nil", TRUE,
                                                rf.destinationSession))
                         /\ UNCHANGED rf
    /\ UNCHANGED <<r, change, pos, pc, keyColumns, err, executed, wr>>

(* ---------------------------------------------------------------- inputs *)

IndexOf(seq, x) == CHOOSE i \in 1..Len(seq) : seq[i] = x

\* The value a row carries for a key column: base for a scalar column, the
\* elements base+1, base+2, ... for a tuple column.
KeyValue(typ, base) ==
    IF typ.kind = "tuple"
    THEN MkTuple([j \in 1..typ.arity |-> base + j])
    ELSE MkInt(base)

\* The key of a row: every partition column, and the clustering columns
\* that has marks, with values from ckBase on.
RowKey(rr, has, ckBase) ==
    LET pk == View(rr.pkColumns)
        ck == View(rr.ckColumns)
    IN  [name \in {pk[i] : i \in 1..Len(pk)} \cup {ck[i] : i \in 1..Len(ck)} |->
            IF \E i \in 1..Len(pk) : pk[i] = name
            THEN KeyValue(rr.columnTypes[name], 10 * IndexOf(pk, name))
            ELSE IF has[IndexOf(ck, name)]
            THEN KeyValue(rr.columnTypes[name], ckBase + 10 * IndexOf(ck, name))
            ELSE Absent]

AllCk(rr) == [i \in 1..rr.ckColumns.len |-> TRUE]
NoCk(rr) == [i \in 1..rr.ckColumns.len |-> FALSE]

\* The CDC log columns of a regular column the row does not touch.
NoChange(typ) ==
    [value |-> Nil, deleted |-> FALSE,
     deletedElements |-> IF typ.kind = "udt" /\ ~typ.frozen
                         THEN [tag |-> "idx", v |-> << >>] ELSE Nil]

\* A value of a column that is written as a whole.
SampleValue(typ) ==
    IF typ.kind = "tuple" THEN MkTuple([j \in 1..typ.arity |-> 70 + j])
    ELSE IF typ.kind = "scalar" THEN MkInt(5)
    ELSE [tag |-> "coll", v |-> <<61, 62>>]

\* A list's appended cells: n cells with keys 11, 12, ... and values 21, ...
AppendedCells(n) ==
    [tag |-> "map", v |-> Flatten([i \in 1..n |-> <<10 + i, 20 + i>>])]

\* What the CDC log columns of a regular column can hold, by its type.
RawChanges(typ) ==
    IF typ.frozen \/ ~IsCollection(typ)
    THEN { [value |-> v, deleted |-> d, deletedElements |-> Nil] :
             v \in {Nil, SampleValue(typ)}, d \in BOOLEAN }
    ELSE IF typ.kind = "list"
    THEN { [value |-> v, deleted |-> d, deletedElements |-> e] :
             v \in {Nil} \cup {AppendedCells(n) : n \in 1..MaxCells},
             d \in BOOLEAN,
             e \in {Nil, [tag |-> "keys", v |-> <<31>>]} }
    ELSE IF typ.kind = "udt"
    THEN { [value |-> v, deleted |-> d, deletedElements |-> e] :
             v \in {Nil} \cup { [tag |-> "udt", v |-> <<x, y>>] :
                                  x \in {-1, -2, 51}, y \in {-1, 52} },
             d \in BOOLEAN,
             e \in { [tag |-> "idx", v |-> ix] :
                       ix \in {<< >>, <<0>>, <<1>>, <<0, 1>>} } }
    ELSE { [value |-> v, deleted |-> d, deletedElements |-> e] :
             v \in {Nil, [tag |-> "coll", v |-> <<41>>]},
             d \in BOOLEAN,
             e \in {Nil, [tag |-> "coll", v |-> <<42>>]} }

RECURSIVE ColsFrom(_, _)
\* Every assignment of raw changes to the regular columns names.
ColsFrom(rr, names) ==
    IF Len(names) = 0 THEN { << >> }
    ELSE { (names[1] :> x) @@ f :
             x \in RawChanges(rr.columnTypes[names[1]]),
             f \in ColsFrom(rr, Tail(names)) }

UntouchedCols(rr) ==
    LET names == View(rr.otherColumns)
    IN  [name \in {names[i] : i \in 1..Len(names)} |->
            NoChange(rr.columnTypes[name])]

\* The TTL the rows carry.
RowTTL == 100

Event(op, key, cols) == [op |-> op, ttl |-> RowTTL, key |-> key, cols |-> cols]

InsertUpdateEvents(rr) ==
    { Event(op, RowKey(rr, AllCk(rr), 100), cols) :
        op \in {"Insert", "Update"},
        cols \in ColsFrom(rr, View(rr.otherColumns)) }

\* The start and end rows of range deletes: any set of clustering columns
\* may carry a value; the start's values differ from the end's.
RangeStartEvents(rr) ==
    { Event(op, RowKey(rr, has, 100), UntouchedCols(rr)) :
        op \in {"RangeDeleteStartInclusive", "RangeDeleteStartExclusive"},
        has \in [1..rr.ckColumns.len -> BOOLEAN] }

RangeEndEvents(rr) ==
    { Event(op, RowKey(rr, has, 200), UntouchedCols(rr)) :
        op \in {"RangeDeleteEndInclusive", "RangeDeleteEndExclusive"},
        has \in [1..rr.ckColumns.len -> BOOLEAN] }

\* The write timestamp of the changes.
Timestamps == {1000}

(* -------------------------------------------- translating single events *)

InitWith(metas, goroutines) ==
    /\ r \in {NewDeltaReplicator(meta) : meta \in metas}
    /\ pos = [g \in goroutines |-> 0]
    /\ pc = [g \in goroutines |-> "loop"]
    /\ keyColumns = [g \in goroutines |-> NoKeyColumns]
    /\ err = [g \in goroutines |-> "nil"]
    /\ executed = [g \in goroutines |-> << >>]
    /\ wr = [g \in goroutines |-> {}]
    /\ rf = [destinationSession |-> "open"]
    /\ calls = << >>

\* One Insert or Update event, of any table.
InitInsUpd ==
    /\ InitWith(TableMetas, {"g1"})
    /\ \E t \in Timestamps, e \in InsertUpdateEvents(r) :
           change = [g \in {"g1"} |-> [timestamp |-> t, Delta |-> <<e>>]]

NextInsUpd ==
    \/ \E g \in Goroutines : ProcessInsertOrUpdateBegin(g)
    \/ \E g \in Goroutines : ProcessInsertOrUpdateExec(g)
    \/ \E g \in Goroutines : ConsumeReturn(g)

SpecInsUpd == InitInsUpd /\ [][NextInsUpd]_vars

(* -------------------------------------------- resolving single range pairs *)

RangeMetas ==
    { TableMeta(nPk, nCk, tp, tc, LayoutScalarList) :
        nPk \in 1..MaxPk, nCk \in 1..MaxCk, tp \in BOOLEAN, tc \in BOOLEAN }

\* One start/end pair, of any table with a clustering key.
InitRange ==
    /\ InitWith(RangeMetas, {"g1"})
    /\ \E t \in Timestamps, s \in RangeStartEvents(r), e \in RangeEndEvents(r) :
           change = [g \in {"g1"} |-> [timestamp |-> t, Delta |-> <<s, e>>]]

NextRange ==
    \/ \E g \in Goroutines : ProcessRangeDelete(g)
    \/ \E g \in Goroutines : ConsumeReturn(g)

SpecRange == InitRange /\ [][NextRange]_vars

(* ------------------------------------------------- Consume over a Delta *)

ConsumeMetas ==
    { TableMeta(1, 1, FALSE, FALSE, LayoutScalarList),
      TableMeta(MaxPk, MaxCk, FALSE, FALSE, LayoutScalarList) }

FirstCkOnly(rr) == [i \in 1..rr.ckColumns.len |-> i = 1]

\* The rows the Deltas are made of: an update of the scalar column, a list
\* reset with and without appended cells, the deletes, range bounds with
\* and without a value for the first clustering column, and a pre-image.
ConsumeEvents(rr) ==
    LET cols(val, items) == ("val" :> val) @@ ("items" :> items)
        untouched == NoChange(ScalarType)
        full == RowKey(rr, AllCk(rr), 100)
    IN  { Event("Update", full,
                cols([untouched EXCEPT !.value = MkInt(5)], untouched)),
          Event("Insert", full,
                cols(untouched, [untouched EXCEPT !.value = AppendedCells(1),
                                                  !.deleted = TRUE])),
          Event("Update", full,
                cols(untouched, [untouched EXCEPT !.deleted = TRUE])),
          Event("RowDelete", full, UntouchedCols(rr)),
          Event("PartitionDelete", RowKey(rr, NoCk(rr), 100), UntouchedCols(rr)),
          Event("RangeDeleteStartInclusive",
                RowKey(rr, FirstCkOnly(rr), 100), UntouchedCols(rr)),
          Event("RangeDeleteStartExclusive",
                RowKey(rr, NoCk(rr), 100), UntouchedCols(rr)),
          Event("RangeDeleteEndInclusive",
                RowKey(rr, FirstCkOnly(rr), 200), UntouchedCols(rr)),
          Event("RangeDeleteEndExclusive",
                RowKey(rr, NoCk(rr), 200), UntouchedCols(rr)),
          Event("PreImage", full, UntouchedCols(rr)) }

\* Every sequence of at most MaxDelta of the events.
Deltas(events) == UNION {[1..n -> events] : n \in 0..MaxDelta}

Init ==
    /\ InitWith(ConsumeMetas, {"g1"})
    /\ \E t \in Timestamps, d \in Deltas(ConsumeEvents(r)) :
           change = [g \in {"g1"} |-> [timestamp |-> t, Delta |-> d]]

Next ==
    \/ \E g \in Goroutines : ProcessInsertOrUpdateBegin(g)
    \/ \E g \in Goroutines : ProcessInsertOrUpdateExec(g)
    \/ \E g \in Goroutines : ProcessRowDelete(g)
    \/ \E g \in Goroutines : ProcessPartitionDelete(g)
    \/ \E g \in Goroutines : ProcessRangeDelete(g)
    \/ \E g \in Goroutines : UnsupportedOperation(g)
    \/ \E g \in Goroutines : ConsumeReturn(g)

Spec == Init /\ [][Next]_vars

(* ------------------------------------ Consume on two goroutines at once *)

ConcMetas ==
    { TableMeta(nPk, 1, FALSE, FALSE, LayoutScalarList) : nPk \in 1..MaxPk }

ConcEvents(rr) ==
    { e \in ConsumeEvents(rr) : e.op \in {"Update", "RowDelete"} }

\* Two goroutines, each consuming the change of a partition of its own.
InitConc ==
    /\ InitWith(ConcMetas, {"g1", "g2"})
    /\ \E t \in Timestamps :
           change \in [{"g1", "g2"} ->
                         { [timestamp |-> t, Delta |-> d] :
                             d \in [1..1 -> ConcEvents(r)]
                                     \cup [1..2 -> ConcEvents(r)] }]

NextConc ==
    \/ \E g \in Goroutines : ProcessInsertOrUpdateBegin(g)
    \/ \E g \in Goroutines : ProcessInsertOrUpdateExec(g)
    \/ \E g \in Goroutines : ProcessRowDelete(g)
    \/ \E g \in Goroutines : ConsumeReturn(g)

SpecConc == InitConc /\ [][NextConc]_vars

(* ------------------------------ the factory next to a translator at work *)

\* The table names the CDC reader asks consumers for.
TableNames ==
    { <<"ks", "t">>, <<"ks", "missing">>, <<"other", "t">>, <<"t">>,
      <<"ks", "t", "x">> }

\* A translator the factory created before, consuming a change, while the
\* reader asks the factory for more consumers.
InitFactory ==
    /\ InitWith({CatalogMeta("ks", <<"t">>)}, {"g1"})
    /\ \E t \in Timestamps, d \in [1..2 -> ConcEvents(r)] :
           change = [g \in {"g1"} |-> [timestamp |-> t, Delta |-> d]]

NextFactory ==
    \/ \E input \in TableNames : CreateChangeConsumer(input)
    \/ \E g \in Goroutines : ProcessInsertOrUpdateBegin(g)
    \/ \E g \in Goroutines : ProcessInsertOrUpdateExec(g)
    \/ \E g \in Goroutines : ProcessRowDelete(g)
    \/ \E g \in Goroutines : ConsumeReturn(g)

SpecFactory == InitFactory /\ [][NextFactory]_vars

(* ----------------------------- the destination as a last-write-wins store *)

\* One mutation of a table: a row marker, a cell of a column (path is the
\* cell's key inside a list, Nil for a scalar), the deletion of a column of
\* a row, the deletion of the rows that meet conditions, or the deletion of
\* a range of clustering prefixes.  eq is a set of <<column, value>> pairs.
Mutation(kind, eq, bounds, col, path, value, ts) ==
    [kind |-> kind, eq |-> eq, bounds |-> bounds, col |-> col,
     path |-> path, value |-> value, ts |-> ts]

\* The value bound to the marker at token j of statement q.
BoundAt(q, j) == q.vals[Cardinality({i \in 1..j : q.stmt[i] = "?"})]

TokenAt(stmt, j) == IF j \in 1..Len(stmt) THEN stmt[j] ELSE ""

PositionOf(stmt, token) ==
    IF \E j \in 1..Len(stmt) : stmt[j] = token
    THEN CHOOSE j \in 1..Len(stmt) :
             stmt[j] = token /\ \A i \in 1..(j - 1) : stmt[i] # token
    ELSE 0

\* The equalities of a statement's WHERE clause, with the values bound.
StatementEq(q) ==
    LET w == PositionOf(q.stmt, " WHERE ")
    IN  { <<q.stmt[j], BoundAt(q, j + 2)>> :
            j \in {i \in (w + 1)..Len(q.stmt) :
                     /\ w > 0
                     /\ TokenAt(q.stmt, i + 1) = " = "
                     /\ TokenAt(q.stmt, i + 2) = "?"} }

\* The inequalities of a statement's WHERE clause, with the values bound.
StatementBounds(q) ==
    LET w == PositionOf(q.stmt, " WHERE ")
    IN  { <<q.stmt[j], q.stmt[j + 2], BoundAt(q, j + 4)>> :
            j \in {i \in (w + 1)..Len(q.stmt) :
                     /\ w > 0
                     /\ TokenAt(q.stmt, i + 1) = " "
                     /\ TokenAt(q.stmt, i + 2) \in {">=", ">", "<=", "<"}
                     /\ TokenAt(q.stmt, i + 4) = "?"} }

\* The timestamp a statement writes at: its USING TIMESTAMP value when it
\* has one, else the timestamp of the write it is part of.
StatementTimestamp(q, ts) ==
    LET u == PositionOf(q.stmt, " USING TIMESTAMP ")
    IN  IF u > 0 THEN BoundAt(q, u + 1).v[1] ELSE ts

\* The columns an INSERT names, each with the value bound to it.
InsertedColumns(q) ==
    LET open == PositionOf(q.stmt, " (")
        close == PositionOf(q.stmt, ") VALUES (")
    IN  { <<q.stmt[j], q.vals[(j - open + 1) \div 2]>> :
            j \in {i \in (open + 1)..(close - 1) : q.stmt[i] # ", "} }

\* What the destination does with one statement it accepts.
StatementEffect(q, ts) ==
    LET stmt == q.stmt
        at == StatementTimestamp(q, ts)
        set == PositionOf(stmt, " SET ")
        unknown == Mutation("unknown", {<<"text", stmt>>}, {}, "", Nil, Nil, at)
    IN  IF stmt[1] = "INSERT INTO "
        THEN Mutation("marker", InsertedColumns(q), {}, "", Nil, Nil, at)
        ELSE IF stmt[1] = "UPDATE " /\ set > 0
        THEN IF TokenAt(stmt, set + 2) = " = " /\ TokenAt(stmt, set + 3) = "?"
                /\ TokenAt(stmt, set + 4) = " WHERE "
             THEN Mutation("cell", StatementEq(q), {}, stmt[set + 1], Nil,
                           BoundAt(q, set + 3), at)
             ELSE IF /\ TokenAt(stmt, set + 2) = "[SCYLLA_TIMEUUID_LIST_INDEX("
                     /\ TokenAt(stmt, set + 3) = "?"
                     /\ TokenAt(stmt, set + 5) = "?"
                     /\ TokenAt(stmt, set + 6) = " WHERE "
             THEN Mutation("cell", StatementEq(q), {}, stmt[set + 1],
                           BoundAt(q, set + 3), BoundAt(q, set + 5), at)
             ELSE unknown
        ELSE IF stmt[1] = "DELETE " /\ TokenAt(stmt, 3) = " FROM "
        THEN Mutation("coldel", StatementEq(q), {}, stmt[2], Nil, Nil, at)
        ELSE IF stmt[1] = "DELETE FROM "
        THEN Mutation("del", StatementEq(q), StatementBounds(q), "", Nil, Nil, at)
        ELSE unknown

\* The mutations the destination has applied for goroutine g: those of the
\* writes that were applied.
Destination(g) ==
    UNION { {StatementEffect(executed[g][k].write.entries[i],
                             executed[g][k].write.timestamp) :
                i \in DOMAIN executed[g][k].write.entries} :
            k \in {j \in 1..Len(executed[g]) : executed[g][j].ok} }

\* The key columns a row carries a value for, with the values.
CarriedKey(e, names) ==
    { <<names[i], e.key[names[i]]>> :
        i \in {j \in 1..Len(names) : e.key[names[j]].tag # "absent"} }

\* The values a row carries for the leading clustering columns.
RECURSIVE CarriedPrefix(_, _)
CarriedPrefix(e, names) ==
    IF Len(names) = 0 \/ e.key[names[1]].tag = "absent" THEN << >>
    ELSE <<e.key[names[1]]>> \o CarriedPrefix(e, Tail(names))

\* What the logical operation of an Insert or Update row does at the
\* source: the row marker of an INSERT, the value or the deletion of a
\* scalar column, and for a list the overwrite (what was there before the
\* operation is gone) and the cells added.
RowLogicalEffect(rr, e, ts) ==
    LET key == CarriedKey(e, View(rr.pkColumns) \o View(rr.ckColumns))
        names == View(rr.otherColumns)
        cols == {names[i] : i \in 1..Len(names)}
        cells(c) == e.cols[c].value.v
    IN  (IF e.op = "Insert"
         THEN {Mutation("marker", key, {}, "", Nil, Nil, ts)} ELSE {})
        \cup { Mutation("coldel", key, {}, c, Nil, Nil,
                        IF rr.columnTypes[c].kind = "list" THEN ts - 1 ELSE ts) :
                 c \in {x \in cols : e.cols[x].deleted} }
        \cup { Mutation("cell", key, {}, c, Nil, e.cols[c].value, ts) :
                 c \in {x \in cols : /\ rr.columnTypes[x].kind = "scalar"
                                     /\ ~e.cols[x].deleted
                                     /\ e.cols[x].value.tag # "nil"} }
        \cup UNION { { Mutation("cell", key, {}, c, MkInt(cells(c)[2 * n - 1]),
                                MkInt(cells(c)[2 * n]), ts) :
                         n \in 1..(Len(cells(c)) \div 2) } :
                     c \in {x \in cols : /\ rr.columnTypes[x].kind = "list"
                                         /\ e.cols[x].value.tag # "nil"} }

\* What the logical operation of the unit at position p (1-based) of a
\* Delta does at the source; nothing for the end row of a range.
LogicalEffect(rr, delta, p, ts) ==
    LET e == delta[p]
        pk == View(rr.pkColumns)
        ck == View(rr.ckColumns)
    IN  IF e.op \in {"Insert", "Update"} THEN RowLogicalEffect(rr, e, ts)
        ELSE IF e.op = "RowDelete"
        THEN {Mutation("del", CarriedKey(e, pk \o ck), {}, "", Nil, Nil, ts)}
        ELSE IF e.op = "PartitionDelete"
        THEN {Mutation("del", CarriedKey(e, pk), {}, "", Nil, Nil, ts)}
        ELSE IF /\ e.op \in {"RangeDeleteStartInclusive",
                             "RangeDeleteStartExclusive"}
                /\ p < Len(delta)
        THEN {Mutation("range", CarriedKey(e, pk),
                       { <<"lower", e.op = "RangeDeleteStartInclusive",
                           CarriedPrefix(e, ck)>>,
                         <<"upper", delta[p + 1].op = "RangeDeleteEndInclusive",
                           CarriedPrefix(delta[p + 1], ck)>> },
                       "", Nil, Nil, ts)}
        ELSE {}

\* The reference: the logical operations of the rows of goroutine g's
\* change applied directly.
Reference(g) ==
    UNION { LogicalEffect(r, change[g].Delta, p, change[g].timestamp) :
              p \in 1..Len(change[g].Delta) }

\* Comparison of two key values: -1, 0 or 1.
CompareValues(x, y) ==
    IF x.v[1] < y.v[1] THEN -1 ELSE IF x.v[1] > y.v[1] THEN 1 ELSE 0

RECURSIVE ComparePrefix(_, _)
ComparePrefix(xs, ys) ==
    IF Len(xs) = 0 \/ Len(ys) = 0 THEN 0
    ELSE IF CompareValues(xs[1], ys[1]) # 0 THEN CompareValues(xs[1], ys[1])
    ELSE ComparePrefix(Tail(xs), Tail(ys))

\* Whether the value x meets the inequality op against the bound y; a
\* bound that is no value is met by nothing.
MeetsBound(x, op, y) ==
    /\ x.tag = "int" /\ y.tag = "int"
    /\ LET c == CompareValues(x, y)
       IN  \/ op = ">=" /\ c >= 0
           \/ op = ">" /\ c > 0
           \/ op = "<=" /\ c <= 0
           \/ op = "<" /\ c < 0

\* Whether a row deletion covers the row with the given key.
Covers(t, key) ==
    /\ t.eq \subseteq key
    /\ IF t.kind = "del"
       THEN \A b \in t.bounds :
                \E kv \in key : kv[1] = b[1] /\ MeetsBound(kv[2], b[2], b[3])
       ELSE LET ck == View(r.ckColumns)
                row == [i \in 1..Len(ck) |->
                           (CHOOSE kv \in key : kv[1] = ck[i])[2]]
            IN  /\ \A i \in 1..Len(ck) : \E kv \in key : kv[1] = ck[i]
                /\ \A b \in t.bounds :
                       LET c == ComparePrefix(row, b[3])
                       IN  \/ Len(b[3]) = 0
                           \/ b[1] = "lower" /\ (c > 0 \/ (b[2] /\ c = 0))
                           \/ b[1] = "upper" /\ (c < 0 \/ (b[2] /\ c = 0))

\* A marker or a cell is gone when a deletion that covers it is as recent.
Shadowed(store, m) ==
    \E t \in store :
        /\ t.ts >= m.ts
        /\ \/ t.kind \in {"del", "range"} /\ Covers(t, m.eq)
           \/ /\ t.kind = "coldel" /\ m.kind = "cell"
              /\ t.eq = m.eq /\ t.col = m.col

\* Between two writes of one cell the later wins, and at equal timestamps
\* the greater value.
Beats(a, b) ==
    /\ a.eq = b.eq /\ a.col = b.col /\ a.path = b.path /\ a.kind = b.kind
    /\ \/ a.ts > b.ts
       \/ a.ts = b.ts /\ a.kind = "cell" /\ CompareValues(a.value, b.value) > 0

\* What reading the table gives: the rows that exist and the values of
\* their columns.
ReadTable(store) ==
    LET live == {m \in store : \/ m.kind = "unknown"
                                \/ /\ m.kind \in {"marker", "cell"}
                                   /\ ~Shadowed(store, m)}
    IN  { [kind |-> m.kind, key |-> m.eq, col |-> m.col, path |-> m.path,
           value |-> m.value] :
            m \in {x \in live : ~\E y \in live : Beats(y, x)} }

(* ----------------------------------------------------- replaying a change *)

\* Largest number of logical operations in a replayed change.
MaxUnits == 2

ReplayMetas ==
    { TableMeta(1, 1, FALSE, FALSE, LayoutScalarList),
      TableMeta(1, 1, TRUE, FALSE, LayoutScalarList) }

\* The logical operations replayed, each as the rows the CDC log has for
\* it: writes and deletions of a row inside and a row outside the ranges,
\* and the ranges, each a start row with its end row.
ReplayUnits(rr) ==
    LET cols(val, items) == ("val" :> val) @@ ("items" :> items)
        untouched == NoChange(ScalarType)
        row(base) == RowKey(rr, AllCk(rr), base)
        none == UntouchedCols(rr)
    IN  { <<Event("Update", row(b), cols([untouched EXCEPT !.value = MkInt(5)],
                                         untouched))>> : b \in {100, 140} }
        \cup
        { <<Event("Update", row(100),
                  cols([untouched EXCEPT !.deleted = TRUE], untouched))>>,
          <<Event("Insert", row(140),
                  cols(untouched, [untouched EXCEPT !.value = AppendedCells(1),
                                                    !.deleted = TRUE]))>>,
          <<Event("RowDelete", row(140), none)>>,
          <<Event("PartitionDelete", RowKey(rr, NoCk(rr), 100), none)>>,
          <<Event("RangeDeleteStartExclusive", row(100), none),
            Event("RangeDeleteEndInclusive", row(200), none)>>,
          <<Event("RangeDeleteStartInclusive", row(100), none),
            Event("RangeDeleteEndExclusive", RowKey(rr, NoCk(rr), 200), none)>>,
          <<Event("RangeDeleteStartInclusive", RowKey(rr, NoCk(rr), 100), none),
            Event("RangeDeleteEndExclusive", row(130), none)>> }

\* The rows of every sequence of at most MaxUnits of the operations.
ReplayDeltas(rr) ==
    { Flatten(us) : us \in UNION {[1..n -> ReplayUnits(rr)] : n \in 0..MaxUnits} }

InitReplay ==
    /\ InitWith(ReplayMetas, {"g1"})
    /\ \E t \in Timestamps, d \in ReplayDeltas(r) :
           change = [g \in {"g1"} |-> [timestamp |-> t, Delta |-> d]]

NextReplay ==
    \/ \E g \in Goroutines : ProcessInsertOrUpdateBegin(g)
    \/ \E g \in Goroutines : ProcessInsertOrUpdateExec(g)
    \/ \E g \in Goroutines : ProcessRowDelete(g)
    \/ \E g \in Goroutines : ProcessPartitionDelete(g)
    \/ \E g \in Goroutines : ProcessRangeDelete(g)
    \/ \E g \in Goroutines : ConsumeReturn(g)

SpecReplay == InitReplay /\ [][NextReplay]_vars

(* ============================================================== claims *)

(* What the statements are expected to look like, written out from the    *)
(* statement shapes rather than through the translator's operators.       *)

\* The key columns in partition-key-then-clustering-key order.
ExpKeyNames == View(r.pkColumns) \o View(r.ckColumns)

ExpMarker(typ) ==
    IF typ.kind = "tuple"
    THEN <<"(">> \o Join([i \in 1..typ.arity |-> <<"?">>], <<", ">>) \o <<")">>
    ELSE <<"?">>

\* <keys>: one equality per key column, joined by AND.
ExpWhere ==
    <<" WHERE ">>
        \o Join([i \in 1..Len(ExpKeyNames) |->
                    <<ExpKeyNames[i], " = ">>
                        \o ExpMarker(r.columnTypes[ExpKeyNames[i]])],
                <<" AND ">>)

\* The key values of row e, in the order of ExpKeyNames.
ExpKeyVals(e) == [i \in 1..Len(ExpKeyNames) |-> e.key[ExpKeyNames[i]]]

\* The k-th write of goroutine g, and the row it was issued for.
WriteOf(g, k) == executed[g][k].write
EventOf(g, k) == change[g].Delta[executed[g][k].pos + 1]

\* The writes issued for Insert and Update rows, as (goroutine, index) pairs.
BatchWrites ==
    { gk \in UNION {{<<g, k>> : k \in 1..Len(executed[g])} : g \in Goroutines} :
        EventOf(gk[1], gk[2]).op \in {"Insert", "Update"} }

\* The positions of the entries of a batch that name column col.
EntriesOf(q, col) ==
    {i \in 1..Len(q) : \E j \in 1..Len(q[i].stmt) : q[i].stmt[j] = col}

\* The positions of the entries of a batch whose text is stmt.
EntriesWith(q, stmt) == {i \in 1..Len(q) : q[i].stmt = stmt}

RegularColumns(kinds, frozen) ==
    { c \in {View(r.otherColumns)[i] : i \in 1..r.otherColumns.len} :
        r.columnTypes[c].kind \in kinds /\ r.columnTypes[c].frozen \in frozen }

ExpInsertText ==
    <<"INSERT INTO ", "ks.t", " (">>
        \o Join([i \in 1..Len(ExpKeyNames) |-> <<ExpKeyNames[i]>>], <<", ">>)
        \o <<") VALUES (">>
        \o Join([i \in 1..Len(ExpKeyNames) |->
                    ExpMarker(r.columnTypes[ExpKeyNames[i]])], <<", ">>)
        \o <<") USING TTL ", "?">>

\* C1: the batch of an Insert starts with the row-marker INSERT, bound to
\* the key values in partition-then-clustering order and then the TTL; the
\* entries after it are the per-column mutations, the same ones the Update
\* of the same row content gets; no other entry of an Insert's batch, and no
\* entry of an Update's batch, is an INSERT; the batch is one unlogged batch.
C1_InsertMarkerFirst ==
    \A gk \in BatchWrites :
        LET e == EventOf(gk[1], gk[2])
            w == WriteOf(gk[1], gk[2])
            q == w.entries
            mutations == IF e.op = "Insert" THEN Tail(q) ELSE q
        IN  /\ w.type = "UnloggedBatch"
            /\ e.op = "Insert" =>
                   /\ Len(q) >= 1
                   /\ q[1].stmt = ExpInsertText
                   /\ q[1].vals = Append(ExpKeyVals(e), MkInt(e.ttl))
            /\ \A i \in 1..Len(mutations) : mutations[i].stmt[1] # "INSERT INTO "
            /\ \E order \in Permutations(1..MaxCells) :
                   mutations =
                       InsertOrUpdateBatch(
                           r, ExpKeyNames, change[gk[1]].timestamp, FALSE,
                           [e EXCEPT !.op = "Update"],
                           [i \in 1..MaxCells |-> order[i]]).entries

\* An Insert whose batch holds the marker and at least one column mutation.
C1_Witness ==
    \E gk \in BatchWrites :
        /\ EventOf(gk[1], gk[2]).op = "Insert"
        /\ Len(WriteOf(gk[1], gk[2]).entries) >= 2
        /\ r.ckColumns.len >= 1

\* The raw change row e carries for column col.
RawOf(e, col) == e.cols[col]

\* UPDATE T USING TTL ? SET <set> WHERE <keys>
ExpUpdate(set) ==
    <<"UPDATE ", "ks.t", " USING TTL ", "?", " SET ">> \o set \o ExpWhere

\* The number of cells a raw list value appends.
AppendedCount(value) == IF value.tag = "nil" THEN 0 ELSE Len(value.v) \div 2

ExpClearText(col) ==
    <<"DELETE ", col, " FROM ", "ks.t", " USING TIMESTAMP ", "?">> \o ExpWhere

ExpAppendText(col) ==
    ExpUpdate(<<col, "[SCYLLA_TIMEUUID_LIST_INDEX(", "?", ")] = ", "?">>)

\* C2: when an unfrozen list is reset, the batch holds exactly one clear
\* statement for it, before every append of the column; the clear is bound
\* to the event timestamp minus one if the event appends at least one cell
\* and to the event timestamp if it appends none; there is one append per
\* appended cell, none of them carries a timestamp of its own, and the batch
\* they are in is applied at the event timestamp.
C2_ListResetClear ==
    \A gk \in BatchWrites : \A col \in RegularColumns({"list"}, {FALSE}) :
        LET e == EventOf(gk[1], gk[2])
            w == WriteOf(gk[1], gk[2])
            q == w.entries
            T == change[gk[1]].timestamp
            n == AppendedCount(RawOf(e, col).value)
            clears == EntriesWith(q, ExpClearText(col))
            appends == EntriesWith(q, ExpAppendText(col))
        IN  RawOf(e, col).deleted =>
                /\ Cardinality(clears) = 1
                /\ Cardinality(appends) = n
                /\ \A i \in clears : \A j \in appends : i < j
                /\ \A i \in clears :
                       q[i].vals =
                           <<MkInt(IF n >= 1 THEN T - 1 ELSE T)>> \o ExpKeyVals(e)
                /\ { q[j].vals : j \in appends } =
                       { <<MkInt(e.ttl),
                            MkInt(RawOf(e, col).value.v[2 * k - 1]),
                            MkInt(RawOf(e, col).value.v[2 * k])>>
                             \o ExpKeyVals(e) : k \in 1..n }
                /\ w.timestamp = T

\* A reset list the same event appends two or more cells to.
C2_Witness ==
    \E gk \in BatchWrites : \E col \in RegularColumns({"list"}, {FALSE}) :
        LET raw == RawOf(EventOf(gk[1], gk[2]), col)
        IN  raw.deleted /\ AppendedCount(raw.value) >= 2

\* C6: an unfrozen set or map that is reset gets exactly one statement,
\* SET col = ? bound to the replacement value; one that is not reset gets
\* SET col = col + ? exactly when elements are added, SET col = col - ?
\* exactly when elements are removed, and no other statement.
C6_SetMapStatements ==
    \A gk \in BatchWrites : \A col \in RegularColumns({"set", "map"}, {FALSE}) :
        LET e == EventOf(gk[1], gk[2])
            q == WriteOf(gk[1], gk[2]).entries
            raw == RawOf(e, col)
            keys == ExpKeyVals(e)
            overwrites == EntriesWith(q, ExpUpdate(<<col, " = ", "?">>))
            adds == EntriesWith(q, ExpUpdate(<<col, " = ", col, " + ", "?">>))
            removes == EntriesWith(q, ExpUpdate(<<col, " = ", col, " - ", "?">>))
        IN  /\ EntriesOf(q, col) = overwrites \cup adds \cup removes
            /\ raw.deleted =>
                   /\ Cardinality(overwrites) = 1
                   /\ adds = {} /\ removes = {}
                   /\ \A i \in overwrites :
                          q[i].vals = <<MkInt(e.ttl), raw.value>> \o keys
            /\ ~raw.deleted =>
                   /\ overwrites = {}
                   /\ Cardinality(adds) = IF raw.value.tag # "nil" THEN 1 ELSE 0
                   /\ Cardinality(removes) =
                          IF raw.deletedElements.tag # "nil" THEN 1 ELSE 0
                   /\ \A i \in adds :
                          q[i].vals = <<MkInt(e.ttl), raw.value>> \o keys
                   /\ \A i \in removes :
                          q[i].vals = <<MkInt(e.ttl), raw.deletedElements>> \o keys

\* A map that gets an add and a remove in one batch, next to a set that is
\* reset.
C6_Witness ==
    \E gk \in BatchWrites :
        LET e == EventOf(gk[1], gk[2])
        IN  /\ \E col \in RegularColumns({"map"}, {FALSE}) :
                   /\ ~RawOf(e, col).deleted
                   /\ RawOf(e, col).value.tag # "nil"
                   /\ RawOf(e, col).deletedElements.tag # "nil"
            /\ \E col \in RegularColumns({"set"}, {FALSE}) : RawOf(e, col).deleted

\* Whether the raw UDT change lists field i (1-based) as removed, and
\* whether it carries a non-null value for it.
FieldRemoved(raw, i) ==
    \E j \in 1..Len(raw.deletedElements.v) : raw.deletedElements.v[j] = i - 1

FieldNonNull(raw, i) == raw.value.tag # "nil" /\ raw.value.v[i] >= 0

\* The positions of the entries of a batch that set field fld of col.
FieldEntries(q, col, fld) ==
    { k \in 1..Len(q) :
        /\ Len(q[k].stmt) >= 9
        /\ SubSeq(q[k].stmt, 1, 9) =
               <<"UPDATE ", "ks.t", " USING TTL ", "?", " SET ",
                 col, ".", fld, " = ">> }

\* C7: for an unfrozen UDT that is not reset, a field listed in
\* removedFields gets exactly one statement, SET col.field = null; a field
\* that is non-null in addedFields and not listed as removed gets exactly
\* one statement, SET col.field = ? bound to its value; any other field
\* gets none, and the column gets no other statement.  A reset gets exactly
\* one statement, SET col = ? bound to the full value.
C7_UDTFieldStatements ==
    \A gk \in BatchWrites : \A col \in RegularColumns({"udt"}, {FALSE}) :
        LET e == EventOf(gk[1], gk[2])
            q == WriteOf(gk[1], gk[2]).entries
            raw == RawOf(e, col)
            keys == ExpKeyVals(e)
            fields == 1..Len(UdtElements)
            whole == EntriesWith(q, ExpUpdate(<<col, " = ", "?">>))
            Of(i) == FieldEntries(q, col, UdtElements[i])
        IN  /\ raw.deleted =>
                   /\ EntriesOf(q, col) = whole
                   /\ Cardinality(whole) = 1
                   /\ \A k \in whole :
                          q[k].vals = <<MkInt(e.ttl), raw.value>> \o keys
            /\ ~raw.deleted =>
                   /\ EntriesOf(q, col) = UNION {Of(i) : i \in fields}
                   /\ \A i \in fields :
                          IF FieldRemoved(raw, i)
                          THEN /\ Cardinality(Of(i)) = 1
                               /\ \A k \in Of(i) :
                                      /\ q[k].stmt =
                                             ExpUpdate(<<col, ".", UdtElements[i],
                                                         " = ", "null">>)
                                      /\ q[k].vals = <<MkInt(e.ttl)>> \o keys
                          ELSE IF FieldNonNull(raw, i)
                          THEN /\ Cardinality(Of(i)) = 1
                               /\ \A k \in Of(i) :
                                      /\ q[k].stmt =
                                             ExpUpdate(<<col, ".", UdtElements[i],
                                                         " = ", "?">>)
                                      /\ q[k].vals =
                                             <<MkInt(e.ttl), MkInt(raw.value.v[i])>>
                                                 \o keys
                          ELSE Of(i) = {}

\* A change that is not a reset, with one field both non-null in
\* addedFields and listed in removedFields, and another field added.
C7_Witness ==
    \E gk \in BatchWrites : \E col \in RegularColumns({"udt"}, {FALSE}) :
        LET raw == RawOf(EventOf(gk[1], gk[2]), col)
        IN  /\ ~raw.deleted
            /\ \E i \in 1..Len(UdtElements) :
                   FieldRemoved(raw, i) /\ FieldNonNull(raw, i)
            /\ \E i \in 1..Len(UdtElements) :
                   ~FieldRemoved(raw, i) /\ FieldNonNull(raw, i)

\* The regular columns written as a whole: scalars, frozen collections and
\* frozen UDTs.
WholeValueColumns ==
    RegularColumns({"scalar"}, BOOLEAN)
        \cup RegularColumns({"list", "set", "map", "udt"}, {TRUE})

\* C8: a scalar, frozen collection or frozen UDT column gets at most one
\* statement: DELETE col FROM T WHERE <keys> bound to the key values when
\* the change deletes it, with or without a value; else UPDATE T USING TTL ?
\* SET col = ? WHERE <keys> bound to the TTL, the value and the key values
\* when the change has a value; else none.
C8_ScalarStatements ==
    \A gk \in BatchWrites : \A col \in WholeValueColumns :
        LET e == EventOf(gk[1], gk[2])
            q == WriteOf(gk[1], gk[2]).entries
            raw == RawOf(e, col)
            mine == EntriesOf(q, col)
        IN  /\ Cardinality(mine) <= 1
            /\ IF raw.deleted
               THEN \E k \in mine :
                        /\ q[k].stmt =
                               <<"DELETE ", col, " FROM ", "ks.t">> \o ExpWhere
                        /\ q[k].vals = ExpKeyVals(e)
               ELSE IF raw.value.tag # "nil"
               THEN \E k \in mine :
                        /\ q[k].stmt = ExpUpdate(<<col, " = ", "?">>)
                        /\ q[k].vals =
                               <<MkInt(e.ttl), raw.value>> \o ExpKeyVals(e)
               ELSE mine = {}

\* A frozen column deleted in a change that also carries a value for it.
C8_Witness ==
    \E gk \in BatchWrites :
        \E col \in RegularColumns({"list", "udt"}, {TRUE}) :
            LET raw == RawOf(EventOf(gk[1], gk[2]), col)
            IN  raw.deleted /\ raw.value.tag # "nil"

\* The writes issued for range deletes, as (goroutine, index) pairs, with
\* the start row and the end row of each.
RangeWrites ==
    { gk \in UNION {{<<g, k>> : k \in 1..Len(executed[g])} : g \in Goroutines} :
        EventOf(gk[1], gk[2]).op
            \in {"RangeDeleteStartInclusive", "RangeDeleteStartExclusive"} }

StartOf(gk) == EventOf(gk[1], gk[2])
EndOf(gk) == change[gk[1]].Delta[executed[gk[1]][gk[2]].pos + 2]

Carries(e, col) == e.key[col].tag # "absent"

\* The first clustering column (1-based) that the start and the end row do
\* not both carry; one past the last column when they carry all of them.
FirstOpen(s, e) ==
    LET ck == View(r.ckColumns)
        open == {i \in 1..Len(ck) : ~(Carries(s, ck[i]) /\ Carries(e, ck[i]))}
    IN  IF open = {} THEN Len(ck) + 1
        ELSE CHOOSE i \in open : \A j \in open : i <= j

\* The bound kind an event's operation gives: 0 inclusive, 1 exclusive.
KindOf(op) ==
    IF op \in {"RangeDeleteStartInclusive", "RangeDeleteEndInclusive"}
    THEN 0 ELSE 1

\* What the key-order scan prescribes for a start and an end row: the depth
\* (0-based) and which bounds exist.  Not defined by the four cases when
\* neither row carries the first clustering column.
Prescribed(s, e) ==
    LET ck == View(r.ckColumns)
        i == FirstOpen(s, e)
    IN  IF i > Len(ck)
        THEN [depth |-> Len(ck) - 1, left |-> TRUE, right |-> TRUE]
        ELSE IF Carries(s, ck[i])
        THEN [depth |-> i - 1, left |-> TRUE, right |-> FALSE]
        ELSE IF Carries(e, ck[i])
        THEN [depth |-> i - 1, left |-> FALSE, right |-> TRUE]
        ELSE [depth |-> i - 2, left |-> TRUE, right |-> TRUE]

NeitherAtFirst(s, e) ==
    LET ck == View(r.ckColumns)
    IN  ~Carries(s, ck[1]) /\ ~Carries(e, ck[1])

\* C3: for a start/end pair on a table with a clustering key, in each of the
\* four cases of the key-order scan (start only, end only, neither after a
\* column both carry, all columns carried by both) the statement executed
\* is the template at index 8*depth + leftKind + 3*rightKind, with the depth
\* of the case, kind 2 for a bound that does not exist and the kind of the
\* row's operation (0 inclusive, 1 exclusive) for one that does.
C3_RangeTemplateIndex ==
    \A gk \in RangeWrites :
        LET s == StartOf(gk)
            e == EndOf(gk)
            p == Prescribed(s, e)
            leftKind == IF p.left THEN KindOf(s.op) ELSE 2
            rightKind == IF p.right THEN KindOf(e.op) ELSE 2
            index == 8 * p.depth + leftKind + 3 * rightKind
        IN  ~NeitherAtFirst(s, e) =>
                /\ index \in 0..(Len(r.rangeDeleteQueryStrs) - 1)
                /\ WriteOf(gk[1], gk[2]).type = "Query"
                /\ WriteOf(gk[1], gk[2]).entries[1].stmt =
                       r.rangeDeleteQueryStrs[index + 1]

\* A pair that both carry the first clustering column and neither carries
\* the second, with an exclusive start and an inclusive end.
C3_Witness ==
    \E gk \in RangeWrites :
        /\ r.ckColumns.len >= 2
        /\ FirstOpen(StartOf(gk), EndOf(gk)) = 2
        /\ ~Carries(StartOf(gk), View(r.ckColumns)[2])
        /\ ~Carries(EndOf(gk), View(r.ckColumns)[2])
        /\ StartOf(gk).op = "RangeDeleteStartExclusive"
        /\ EndOf(gk).op = "RangeDeleteEndInclusive"

\* C4: the values bound to a range delete are the partition-key values, the
\* values of the clustering columns before the depth, the left bound if one
\* exists and the right bound if one exists, in this order, and there are
\* as many of them as the selected template has placeholders.
C4_RangeBindOrder ==
    \A gk \in RangeWrites :
        LET s == StartOf(gk)
            e == EndOf(gk)
            res == RangeResolve(r, s, e)
            pk == View(r.pkColumns)
            ck == View(r.ckColumns)
            q == WriteOf(gk[1], gk[2]).entries[1]
        IN  /\ q.vals =
                   [i \in 1..Len(pk) |-> s.key[pk[i]]]
                       \o [i \in 1..res.baseIdx |-> s.key[ck[i]]]
                       \o (IF res.hasLeft
                           THEN <<s.key[ck[res.baseIdx + 1]]>> ELSE << >>)
                       \o (IF res.hasRight
                           THEN <<e.key[ck[res.baseIdx + 1]]>> ELSE << >>)
            /\ Len(q.vals) = Placeholders(q.stmt)

RangeStartOps == {"RangeDeleteStartInclusive", "RangeDeleteStartExclusive"}

\* The number of events the unit at position p (0-based) of a Delta spans:
\* a range start and the event after it are one unit.
UnitSize(delta, p) == IF delta[p + 1].op \in RangeStartOps THEN 2 ELSE 1

\* The position after the units goroutine g has issued a write for.
ChainEnd(g) ==
    IF executed[g] = << >> THEN 0
    ELSE LET last == executed[g][Len(executed[g])]
         IN  last.pos + UnitSize(change[g].Delta, last.pos)

\* The kind of write an operation is translated to.
WriteType(op) == IF op \in {"Insert", "Update"} THEN "UnloggedBatch" ELSE "Query"

\* C5: the writes of a Consume call are for the units of the Delta in
\* delivery order, one write per unit: the first is for position 0, each
\* next one for the position right after the unit before it, a range start
\* and the event that follows it being one unit with one statement, so no
\* event after a start gets a write of its own; Consume is at the position
\* after the last unit it wrote, and it returns nil only when every write
\* was applied and that position is the end of the Delta.
C5_UnitsInOrder ==
    \A g \in Goroutines :
        LET delta == change[g].Delta
            ex == executed[g]
        IN  /\ \A k \in 1..Len(ex) :
                   /\ ex[k].pos = IF k = 1 THEN 0
                                  ELSE ex[k - 1].pos + UnitSize(delta, ex[k - 1].pos)
                   /\ ex[k].pos + UnitSize(delta, ex[k].pos) <= Len(delta)
                   /\ delta[ex[k].pos + 1].op
                          \in {"Insert", "Update", "RowDelete", "PartitionDelete"}
                                  \cup RangeStartOps
                   /\ ex[k].write.type = WriteType(delta[ex[k].pos + 1].op)
                   /\ delta[ex[k].pos + 1].op \in RangeStartOps =>
                          Len(ex[k].write.entries) = 1
                   /\ k < Len(ex) => ex[k].ok
            /\ pos[g] = ChainEnd(g)
            /\ (pc[g] = "returned" /\ err[g] = "nil") =>
                   /\ pos[g] = Len(delta)
                   /\ \A k \in 1..Len(ex) : ex[k].ok

\* Consume has returned nil for a Delta of three events, two of them a
\* range start and the end that follows it.
C5_Witness ==
    \E g \in Goroutines :
        /\ pc[g] = "returned" /\ err[g] = "nil"
        /\ Len(change[g].Delta) = 3
        /\ Len(executed[g]) = 2
        /\ \E k \in 1..2 : change[g].Delta[executed[g][k].pos + 1].op \in RangeStartOps

\* The positions of the entries of a batch that set a timestamp of their own.
OwnTimestamp(q) ==
    {i \in 1..Len(q) : \E j \in 1..Len(q[i].stmt) : q[i].stmt[j] = " USING TIMESTAMP "}

\* C9: every write issued for a change, batch or single statement, carries
\* the timestamp of the change; the only statements with a timestamp of
\* their own are the clears of lists being reset, and such a clear has the
\* timestamp of the change, or one less when the event appends to the list.
C9_WriteTimestamps ==
    \A g \in Goroutines : \A k \in 1..Len(executed[g]) :
        LET e == EventOf(g, k)
            w == WriteOf(g, k)
            q == w.entries
            T == change[g].timestamp
        IN  /\ w.timestamp = T
            /\ \A i \in OwnTimestamp(q) :
                   \E col \in RegularColumns({"list"}, {FALSE}) :
                       /\ e.op \in {"Insert", "Update"}
                       /\ RawOf(e, col).deleted
                       /\ q[i].stmt = ExpClearText(col)
                       /\ q[i].vals[1] =
                              MkInt(IF AppendedCount(RawOf(e, col).value) >= 1
                                    THEN T - 1 ELSE T)

\* A change with a list reset that appends, a list reset that does not, and
\* a row delete, all written.
C9_Witness ==
    \E g \in Goroutines :
        /\ Len(executed[g]) = 3
        /\ \E k \in 1..3 : EventOf(g, k).op = "RowDelete"
        /\ \E k \in 1..3 :
               /\ EventOf(g, k).op \in {"Insert", "Update"}
               /\ RawOf(EventOf(g, k), "items").deleted
               /\ AppendedCount(RawOf(EventOf(g, k), "items").value) >= 1
        /\ \E k \in 1..3 :
               /\ EventOf(g, k).op \in {"Insert", "Update"}
               /\ RawOf(EventOf(g, k), "items").deleted
               /\ AppendedCount(RawOf(EventOf(g, k), "items").value) = 0

\* C10: no Consume call stores into memory of the schema of the translator:
\* the backing arrays of pkColumns, ckColumns and otherColumns are as
\* NewDeltaReplicator left them, under any interleaving of two calls.
C10_SchemaNeverWritten ==
    \A g \in Goroutines : wr[g] = {}

\* C11: within a Consume call no event gets more than one destination
\* write; a write that fails is the last write of the call, Consume has
\* returned the error, and the events after it got no write.
C11_StopAtFirstFailure ==
    \A g \in Goroutines :
        LET ex == executed[g]
        IN  /\ \A j, k \in 1..Len(ex) : j < k => ex[j].pos < ex[k].pos
            /\ \A k \in 1..Len(ex) :
                   ~ex[k].ok =>
                       /\ k = Len(ex)
                       /\ pc[g] = "returned"
                       /\ err[g] = "error"
                       /\ \A j \in 1..Len(ex) : ex[j].pos <= ex[k].pos
            /\ (pc[g] = "returned" /\ err[g] = "error") =>
                   (ex # << >> /\ ~ex[Len(ex)].ok)

\* The second of three events failed after the first was applied, and the
\* third, a row that could have been written, got no write.
C11_Witness ==
    \E g \in Goroutines :
        /\ Len(change[g].Delta) = 3
        /\ Len(executed[g]) = 2
        /\ executed[g][1].ok /\ ~executed[g][2].ok
        /\ executed[g][2].pos = 1
        /\ change[g].Delta[3].op = "RowDelete"

RECURSIVE UnitStartsFrom(_, _)
\* The positions (0-based) the loop of Consume arrives at when every write
\* before them is applied: from p on, unit by unit.
UnitStartsFrom(delta, p) ==
    IF p >= Len(delta) THEN {}
    ELSE {p} \cup UnitStartsFrom(delta, p + UnitSize(delta, p))

SupportedOps ==
    {"Insert", "Update", "RowDelete", "PartitionDelete"} \cup RangeStartOps

\* C12: when the loop of Consume arrives at an event whose operation is
\* none of Insert, Update, RowDelete, PartitionDelete and a range start,
\* that event and the events after it get no write, and Consume does not
\* return nil.
C12_HaltAtUnsupported ==
    \A g \in Goroutines :
        \A p \in UnitStartsFrom(change[g].Delta, 0) :
            change[g].Delta[p + 1].op \notin SupportedOps =>
                /\ \A k \in 1..Len(executed[g]) : executed[g][k].pos < p
                /\ ~(pc[g] = "returned" /\ err[g] = "nil")
                /\ pos[g] <= p

\* Consume stopped at a range end that no start precedes, after one write,
\* with a row after it that could have been written.
C12_Witness ==
    \E g \in Goroutines :
        /\ pc[g] = "panicked"
        /\ pos[g] = 1
        /\ Len(executed[g]) = 1
        /\ Len(change[g].Delta) = 3
        /\ change[g].Delta[2].op = "RangeDeleteEndInclusive"
        /\ change[g].Delta[3].op = "RowDelete"

\* The pairs of bound kinds a template is stored for: all but (absent, absent).
BoundKinds == {lr \in (0..2) \X (0..2) : ~(lr[1] = 2 /\ lr[2] = 2)}

\* C13: the range delete table of a translator has 8 entries for each
\* clustering column, none for a table without clustering columns, and
\* (depth, leftKind, rightKind) -> 8*depth + leftKind + 3*rightKind maps
\* the valid combinations one to one onto the indexes of the table.
C13_TemplateTableSize ==
    LET K == r.ckColumns.len
        combos == {<<d, lr[1], lr[2]>> : d \in 0..(K - 1), lr \in BoundKinds}
        Index(t) == 8 * t[1] + t[2] + 3 * t[3]
    IN  /\ Len(r.rangeDeleteQueryStrs) = 8 * K
        /\ \A t, u \in combos : Index(t) = Index(u) => t = u
        /\ {Index(t) + 1 : t \in combos} = DOMAIN r.rangeDeleteQueryStrs
        /\ NewDeltaReplicator(TableMeta(1, 0, FALSE, FALSE, LayoutScalarList))
               .rangeDeleteQueryStrs = << >>

\* A translator of a table with two clustering columns, after a range
\* delete at the deepest index used.
C13_Witness ==
    /\ r.ckColumns.len = 2
    /\ Len(r.rangeDeleteQueryStrs) = 16
    /\ \E gk \in RangeWrites :
           WriteOf(gk[1], gk[2]).entries[1].stmt = r.rangeDeleteQueryStrs[13]

\* A statement text without its bind markers.
WithoutMarkers(text) ==
    LET Kept(t) == t \notin {"?", "(", ", ", ")"}
    IN  SelectSeq(text, Kept)

\* The conditions of the template for depth d (0-based) and the bound
\* kinds l and rk, each without its bind marker.
ExpRangeConds(d, l, rk) ==
    LET pk == View(r.pkColumns)
        ck == View(r.ckColumns)
    IN  [i \in 1..Len(pk) |-> <<pk[i], " = ">>]
            \o [i \in 1..d |-> <<ck[i], " = ">>]
            \o (IF l = 2 THEN << >>
                ELSE << <<ck[d + 1], " ", <<">=", ">">>[l + 1], " ">> >>)
            \o (IF rk = 2 THEN << >>
                ELSE << <<ck[d + 1], " ", <<"<=", "<">>[rk + 1], " ">> >>)

KeyTypes == {r.columnTypes[ExpKeyNames[i]].kind : i \in 1..Len(ExpKeyNames)}

\* C14: in the finished table the template at index 8*d + l + 3*rk holds,
\* in this order, one equality for each partition key column, one for each
\* clustering column before depth d, then the left bound (>= for kind 0,
\* > for kind 1, none for kind 2) and the right bound (<=, <, none) on the
\* column at depth d; with no tuple in the key each condition has exactly
\* one marker after it.  Building the later templates changed none.
C14_TemplateContents ==
    \A d \in 0..(r.ckColumns.len - 1) : \A lr \in BoundKinds :
        LET text == r.rangeDeleteQueryStrs[8 * d + lr[1] + 3 * lr[2] + 1]
            conds == ExpRangeConds(d, lr[1], lr[2])
        IN  /\ WithoutMarkers(text) =
                   <<"DELETE FROM ", "ks.t", " WHERE ">> \o Join(conds, <<" AND ">>)
            /\ "tuple" \notin KeyTypes =>
                   text = <<"DELETE FROM ", "ks.t", " WHERE ">>
                              \o Join([i \in 1..Len(conds) |-> conds[i] \o <<"?">>],
                                      <<" AND ">>)

\* A translator of a table with three partition key columns and two
\* clustering columns, none a tuple.
C14_Witness ==
    /\ r.pkColumns.len = 3
    /\ r.ckColumns.len = 2
    /\ "tuple" \notin KeyTypes
    /\ Len(r.rangeDeleteQueryStrs) > 8

RECURSIVE SplitOn(_, _, _)
\* strings.Split over token sequences: the pieces of text between the
\* occurrences of the token sep; piece is the piece being read.
SplitOn(text, sep, piece) ==
    IF text = << >> THEN <<piece>>
    ELSE IF Head(text) = sep
    THEN <<piece>> \o SplitOn(Tail(text), sep, << >>)
    ELSE SplitOn(Tail(text), sep, Append(piece, Head(text)))

\* The conditions of a DELETE template: what follows WHERE, split on AND.
ConditionsOf(text) == SplitOn(SubSeq(text, 4, Len(text)), " AND ", << >>)

\* The number of markers the bind-marker rule gives a column.
MarkersFor(col) ==
    IF r.columnTypes[col].kind = "tuple" THEN r.columnTypes[col].arity ELSE 1

\* C15: in the row delete template, the partition delete template and
\* every range delete template, each condition has as many markers as the
\* bind-marker rule gives its column: the arity for a tuple, one otherwise.
C15_TupleMarkersEverywhere ==
    \A text \in {r.rowDeleteQueryStr, r.partitionDeleteQueryStr}
                    \cup {r.rangeDeleteQueryStrs[i] :
                              i \in DOMAIN r.rangeDeleteQueryStrs} :
        \A i \in DOMAIN ConditionsOf(text) :
            LET cond == ConditionsOf(text)[i]
            IN  Placeholders(cond) = MarkersFor(cond[1])

\* Whether a table name is keyspace.table with table a table of the
\* destination catalog's keyspace.
QualifiedAndExists(input) ==
    /\ Len(input) >= 2
    /\ input[1] \in Keyspaces
    /\ Tail(input) \in TablesOf(input[1])

\* C16: a CreateChangeConsumer call returns a ready translator, one with no
\* error and an open session, exactly when the name is keyspace.table and
\* the table is in the catalog; a name without a keyspace gets an error
\* and the catalog is not asked; a call that returns an error returns no
\* translator.
C16_FactoryResult ==
    \A k \in DOMAIN calls :
        LET c == calls[k]
        IN  /\ (c.consumer # << >> /\ c.err = "nil" /\ c.session = "open")
                   <=> QualifiedAndExists(c.input)
            /\ Len(c.input) < 2 => (c.err # "nil" /\ ~c.asked)
            /\ c.err # "nil" => c.consumer = << >>

\* The writes that bind the key columns through appendKeyValuesToBind:
\* those issued for Insert, Update, RowDelete and PartitionDelete rows.
KeyBoundWrites ==
    { gk \in UNION {{<<g, k>> : k \in 1..Len(executed[g])} : g \in Goroutines} :
        EventOf(gk[1], gk[2]).op
            \in {"Insert", "Update", "RowDelete", "PartitionDelete"} }

\* C18: every statement that binds the key columns (the row-marker INSERT,
\* the UPDATE and DELETE statements of a batch, the row delete and the
\* partition delete) is bound to as many values as its text has
\* placeholders, whatever the types of the key columns.
C18_BindCountMatches ==
    \A gk \in KeyBoundWrites :
        LET q == WriteOf(gk[1], gk[2]).entries
        IN  \A i \in DOMAIN q : Len(q[i].vals) = Placeholders(q[i].stmt)

\* Goroutine g is at a RangeDeleteStart row that is the last of its Delta.
AtUnpairedStart(g) ==
    /\ pos[g] + 1 = Len(change[g].Delta)
    /\ GetOperation(CurrentEvent(g))
           \in {"RangeDeleteStartInclusive", "RangeDeleteStartExclusive"}

\* C19: Consume reads no row beyond the end of the Delta: at a
\* RangeDeleteStart that is the last row it does not index the Delta at
\* len(Delta), which would end the call in a panic, and when the call has
\* ended there it has returned an error.
C19_NoReadPastEnd ==
    \A g \in Goroutines :
        AtUnpairedStart(g) =>
            /\ pc[g] # "panicked"
            /\ pc[g] = "returned" => err[g] # "nil"

\* The values a start and an end row carry for the clustering columns.
CarriedBounds(s, e) ==
    LET ck == View(r.ckColumns)
    IN  {s.key[ck[i]] : i \in {j \in 1..Len(ck) : Carries(s, ck[j])}}
            \cup {e.key[ck[i]] : i \in {j \in 1..Len(ck) : Carries(e, ck[j])}}

\* Whether a statement text bounds a column from both sides.
TwoSided(stmt) ==
    /\ \E i \in 1..Len(stmt) : stmt[i] \in {">=", ">"}
    /\ \E i \in 1..Len(stmt) : stmt[i] \in {"<=", "<"}

\* C20: every value a range delete binds after the partition-key values is
\* a value the start or the end row carries for a clustering column; when
\* neither row carries the first clustering column, no nil bound is bound
\* and the statement is not a two-sided template.
C20_BoundsWereRead ==
    \A gk \in RangeWrites :
        LET s == StartOf(gk)
            e == EndOf(gk)
            q == WriteOf(gk[1], gk[2]).entries[1]
            nPk == r.pkColumns.len
        IN  /\ \A i \in (nPk + 1)..Len(q.vals) :
                   q.vals[i] \in CarriedBounds(s, e)
            /\ NeitherAtFirst(s, e) =>
                   /\ \A i \in 1..Len(q.vals) : q.vals[i] # Nil
                   /\ ~TwoSided(q.stmt)

\* The replay of goroutine g's change was cut short by the destination: a
\* write it could have applied failed.
Interrupted(g) ==
    \E k \in 1..Len(executed[g]) :
        ~executed[g][k].ok /\ TRUE \in WriteOutcomes(executed[g][k].write)

\* C17: when Consume has ended on a change of Insert, Update, RowDelete,
\* PartitionDelete and RangeDelete operations, replayed into an empty
\* last-write-wins destination that did not cut the replay short, reading
\* the destination gives the rows and column values that reading the
\* reference gives, the table to which the same logical operations were
\* applied directly.
C17_ReplayEqualsReference ==
    \A g \in Goroutines :
        (pc[g] \in {"returned", "panicked"} /\ ~Interrupted(g)) =>
            ReadTable(Destination(g)) = ReadTable(Reference(g))

\* C21: a CreateChangeConsumer call that fails leaves the factory's
\* destination session open: the call returns with the session open, the
\* translators the factory created before can still have their writes
\* executed, and a later call for a table of the catalog succeeds.
C21_FailedCallKeepsSession ==
    /\ \A k \in DOMAIN calls :
           calls[k].err # "nil" => calls[k].session = "open"
    /\ (\E k \in DOMAIN calls : calls[k].err # "nil") =>
           rf.destinationSession = "open"
    /\ \A k \in DOMAIN calls : \A j \in (k + 1)..Len(calls) :
           (calls[k].err # "nil" /\ QualifiedAndExists(calls[j].input)) =>
               calls[j].err = "nil"

====
